---- MODULE Spec2Model ----
(***************************************************************************)
(* BIG archive library (Reader, Writer, MappedFile): a byte-level model.   *)
(*                                                                         *)
(* Bytes are integers 0..255, byte strings are sequences of bytes, and a   *)
(* position `pos` is the 0-based offset the C++ code uses (so the byte at   *)
(* offset pos is data[pos + 1]).  A uint32_t is the record [hi, lo] of its  *)
(* two 16-bit halves, so that 32-bit wrap-around is computed exactly.      *)
(* A size_t is a plain integer (64 bits: it never wraps at these sizes).   *)
(***************************************************************************)
EXTENDS Integers, Sequences, FiniteSets, TLC

VARIABLES
    disk,           \* the file system: path -> byte string, or NoFile
    pendingFiles_,  \* Writer::pendingFiles_
    entries_,       \* Writer::entries_ (the directory snapshot files() returns)
    reader,         \* the Reader object: mappedFile_, files_, lookup_
    last,           \* the last call made and what it returned
    added,          \* history: the arguments of the addFile calls that succeeded since
                    \* the Writer was created or cleared
    wrote,          \* history: the (path, bytes) pairs that the last successful write
                    \* was asked to store in the archive at OutPath
    calls,          \* number of calls made so far
    objs,           \* the MappedFile objects: slot -> fd_, data_, size_, writable_
    os,             \* the descriptors and mappings the process holds
    archive         \* the Archive facade: which of reader_ / writer_ it holds

vars == <<disk, pendingFiles_, entries_, reader, last, added, wrote, calls,
          objs, os, archive>>

-----------------------------------------------------------------------------
(* Bounds and input alphabets *)

\* most pending files in a Writer
MaxFiles == 2
\* longest file content
MaxDataLen == 1
\* most calls in one run
MaxCalls == 4

\* content bytes of the files that are archived
DataBytes == {7}

\* archive paths handed to addFile / stored in crafted archives:
\* "A\" and "a/" (equal up to case and slash), "b", "c"
ArchivePaths == { <<65, 92>>, <<97, 47>>, <<98>>, <<99>> }

\* a source file, the archive, an extraction target whose parent directory
\* may have to be created
SrcPath == "src.bin"
OutPath == "out.big"
ExtPath == "dir/ext.bin"
Paths == {SrcPath, OutPath, ExtPath}

\* a path that names no file (told apart from every byte string by its -1)
NoFile == << -1 >>
None == "None"

SeqsUpTo(S, n) == UNION { [1..k -> S] : k \in 0..n }
Contents == SeqsUpTo(DataBytes, MaxDataLen)

\* the spans handed to addFile(data, archivePath): an empty one and one with a byte
\* (longer contents come from the source file)
MemContents == { <<>>, <<7>> }

-----------------------------------------------------------------------------
(* uint32_t and byte order *)

headerSize == 16

U32(n) == [hi |-> (n \div 65536) % 65536, lo |-> n % 65536]

\* uint32_t + uint32_t, modulo 2^32
U32Add(a, b) ==
    LET lo == a.lo + b.lo
        hi == a.hi + b.hi + (lo \div 65536)
    IN  [hi |-> hi % 65536, lo |-> lo % 65536]

\* uint32_t u > size_t n, after the usual promotion of u to 64 bits
U32GtNat(u, n) ==
    \/ u.hi > n \div 65536
    \/ u.hi = n \div 65536 /\ u.lo > n % 65536

\* the value of a uint32_t that is known to be small
U32Val(u) == u.hi * 65536 + u.lo

\* the mathematical sum of two uint32_t is at most n (n < 2^16)
MathSumLeq(a, b, n) == a.hi = 0 /\ b.hi = 0 /\ a.lo + b.lo <= n

\* the 4 bytes of a uint32_t as a little-endian host holds them
HostBytes(u) == << u.lo % 256, u.lo \div 256, u.hi % 256, u.hi \div 256 >>

\* htobe32 followed by the memcpy of the 4 bytes: most significant byte first
htobe32(u) == << u.hi \div 256, u.hi % 256, u.lo \div 256, u.lo % 256 >>

\* memcpy of 4 bytes at offset pos followed by betoh32
betoh32(data, pos) ==
    [hi |-> data[pos + 1] * 256 + data[pos + 2],
     lo |-> data[pos + 3] * 256 + data[pos + 4]]

Magic == << 66, 73, 71, 70 >>     \* "BIGF"

-----------------------------------------------------------------------------
(* Path normalization *)

tolower(c) == IF c >= 65 /\ c <= 90 THEN c + 32 ELSE c

\* Reader::normalizePath and Writer::normalizePath (the same code twice)
normalizePath(path) ==
    [i \in 1..Len(path) |-> IF path[i] = 92 THEN 47 ELSE tolower(path[i])]

\* Writer::normalizeSlashes
normalizeSlashes(path) ==
    [i \in 1..Len(path) |-> IF path[i] = 92 THEN 47 ELSE path[i]]

-----------------------------------------------------------------------------
(* Error messages (the text before the formatted arguments) *)

ErrTooSmall      == "File too small to be a BIG archive"
ErrBadMagic      == "Invalid BIG file magic"
ErrFileCount     == "Invalid file count in BIG header"
ErrTruncated     == "File entry extends beyond file bounds"
ErrOutOfBounds   == "File entry has invalid offset/size"
ErrUnterminated  == "File entry has unterminated path string"
ErrDuplicate     == "Duplicate file path in archive"
ErrOpenRead      == "Failed to open file for reading"
ErrEmptyFile     == "File is empty"
ErrInvalidBounds == "Invalid file bounds for"
ErrCreateOutput  == "Failed to create output file"
ErrWriteOutput   == "Failed to write to output file"
ErrNoSource      == "Source file does not exist"
ErrStat          == "Failed to get file size"
ErrCreateWrite   == "Failed to create file for writing"
ErrSetSize       == "Failed to set file size"
ErrMap           == "Failed to map file"
ErrOpenSource    == "Failed to open source file"
ErrSync          == "Failed to sync mapped file"
ErrZeroSize      == "Cannot create file mapping with zero size"
ErrCannotFlush   == "Cannot flush: file not open or not writable"
ErrNotWriting    == "Archive not open for writing"
ErrNotReading    == "Archive not open for reading"

-----------------------------------------------------------------------------
(* MappedFile (POSIX backend), read side *)

\* a MappedFile that maps nothing: data_ == nullptr, size_ == 0
Unmapped == [isOpen |-> FALSE, path |-> None, data |-> <<>>]

\* MappedFile::openRead: the file must exist and must not be empty
openRead(path) ==
    IF disk[path] = NoFile
    THEN [ok |-> FALSE, err |-> ErrOpenRead, mapped |-> Unmapped]
    ELSE IF Len(disk[path]) = 0
    THEN [ok |-> FALSE, err |-> ErrEmptyFile, mapped |-> Unmapped]
    ELSE [ok |-> TRUE, err |-> "",
          mapped |-> [isOpen |-> TRUE, path |-> path, data |-> disk[path]]]

-----------------------------------------------------------------------------
(* Reader *)

MaxFileCount == 1000000

FileEntry(path, lowercasePath, offset, size) ==
    [path |-> path, lowercasePath |-> lowercasePath, offset |-> offset, size |-> size]

ReaderClosed == [mappedFile_ |-> Unmapped, files_ |-> <<>>, lookup_ |-> <<>>]

ParseFail(err) == [ok |-> FALSE, err |-> err, files_ |-> <<>>, lookup_ |-> <<>>]

\* the while loop of Reader::parse that looks for the path's null terminator
ScanPath(data, pos) ==
    CHOOSE n \in 0..(Len(data) - pos) :
        /\ (pos + n >= Len(data) \/ data[pos + n + 1] = 0)
        /\ \A m \in 0..(n - 1) : data[pos + m + 1] # 0

\* the two path fields of a parsed entry
EntryPath(path) == normalizePath(path)
\* (a variant that keeps the path as the archive stores it)
EntryLowercasePathAsStored(path) == path

EntryLowercasePath(path) == normalizePath(path)

\* (a variant that accepts every offset and size)
EntryOutOfBoundsUnchecked(offset, size, fileSize) == FALSE

\* the bounds test of one directory record: uint32_t arithmetic
EntryOutOfBounds(offset, size, fileSize) == U32GtNat(U32Add(offset, size), fileSize)

\* the entry loop of Reader::parse, from entry i at offset pos
RECURSIVE ParseEntries(_, _, _, _, _)
ParseEntries(data, fileCount, i, pos, files) ==
    IF i >= fileCount
    THEN [ok |-> TRUE, err |-> "", files_ |-> files, lookup_ |-> <<>>]
    ELSE IF pos + 8 > Len(data)
    THEN ParseFail(ErrTruncated)
    ELSE LET offset == betoh32(data, pos)
             size == betoh32(data, pos + 4)
             p == pos + 8
         IN  IF EntryOutOfBounds(offset, size, Len(data))
             THEN ParseFail(ErrOutOfBounds)
             ELSE LET pathLen == ScanPath(data, p) IN
                  IF p + pathLen >= Len(data)
                  THEN ParseFail(ErrUnterminated)
                  ELSE LET path == SubSeq(data, p + 1, p + pathLen)
                           entry == FileEntry(EntryPath(path), EntryLowercasePath(path),
                                              offset, size)
                       IN  ParseEntries(data, fileCount, i + 1, p + pathLen + 1,
                                        Append(files, entry))

\* (a variant in which a later entry replaces an earlier one under the same key)
RECURSIVE BuildLookupOverwrite(_, _, _)
BuildLookupOverwrite(files, i, lookup) ==
    IF i > Len(files)
    THEN [ok |-> TRUE, err |-> "", files_ |-> files, lookup_ |-> lookup]
    ELSE BuildLookupOverwrite(files, i + 1,
            (files[i].lowercasePath :> i) @@ lookup)

\* the lookup-table loop of Reader::parse: lowercase path -> index (1-based here)
RECURSIVE BuildLookup(_, _, _)
BuildLookup(files, i, lookup) ==
    IF i > Len(files)
    THEN [ok |-> TRUE, err |-> "", files_ |-> files, lookup_ |-> lookup]
    ELSE IF files[i].lowercasePath \in DOMAIN lookup
    THEN ParseFail(ErrDuplicate)
    ELSE BuildLookup(files, i + 1, lookup @@ (files[i].lowercasePath :> i))

\* (a variant that looks at the magic before the length)
HeaderCheckMagicFirst(data) ==
    IF Len(data) < 4 \/ SubSeq(data, 1, 4) # Magic
    THEN ErrBadMagic
    ELSE IF Len(data) < headerSize
    THEN ErrTooSmall
    ELSE IF U32GtNat(betoh32(data, 8), MaxFileCount)
    THEN ErrFileCount
    ELSE ""

\* (a variant that requires the total-size field to be the length of the file)
HeaderCheckTotalSize(data) ==
    IF Len(data) < headerSize
    THEN ErrTooSmall
    ELSE IF SubSeq(data, 1, 4) # Magic
    THEN ErrBadMagic
    ELSE IF U32GtNat(betoh32(data, 8), MaxFileCount) \/ betoh32(data, 4) # U32(Len(data))
    THEN ErrFileCount
    ELSE ""

\* the header checks of Reader::parse
HeaderCheck(data) ==
    IF Len(data) < headerSize
    THEN ErrTooSmall
    ELSE IF SubSeq(data, 1, 4) # Magic
    THEN ErrBadMagic
    ELSE IF U32GtNat(betoh32(data, 8), MaxFileCount)
    THEN ErrFileCount
    ELSE ""

\* Reader::parse on the mapped bytes
parse(data) ==
    IF HeaderCheck(data) # ""
    THEN ParseFail(HeaderCheck(data))
    ELSE LET r == ParseEntries(data, U32Val(betoh32(data, 8)), 0, headerSize, <<>>)
         IN  IF r.ok THEN BuildLookup(r.files_, 1, <<>>) ELSE r

\* (a variant that looks the path up as it is given)
findFileNoNormalize(r, path) ==
    IF path \in DOMAIN r.lookup_ THEN r.lookup_[path] ELSE 0

\* Reader::findFile: the index (1-based) of the entry, 0 for nullptr
findFile(r, path) ==
    LET normalized == normalizePath(path)
    IN  IF normalized \in DOMAIN r.lookup_ THEN r.lookup_[normalized] ELSE 0

\* Reader::getFileView: the span, as (valid, offset, size); size 0 is the empty span
EmptyView == [valid |-> FALSE, ptr |-> U32(0), size |-> U32(0)]
getFileView(r, entry) ==
    IF U32GtNat(U32Add(entry.offset, entry.size), Len(r.mappedFile_.data))
    THEN EmptyView
    ELSE [valid |-> TRUE, ptr |-> entry.offset, size |-> entry.size]

\* the bytes a span covers; reading a span that leaves the mapping is undefined
ViewInBounds(r, view) ==
    view.valid /\ MathSumLeq(view.ptr, view.size, Len(r.mappedFile_.data))
ViewBytes(r, view) ==
    SubSeq(r.mappedFile_.data, U32Val(view.ptr) + 1, U32Val(view.ptr) + U32Val(view.size))

\* Reader::extractToMemory
extractToMemory(r, entry) ==
    LET view == getFileView(r, entry)
    IN  IF view.size = U32(0)
        THEN [ok |-> FALSE, err |-> ErrInvalidBounds, ub |-> FALSE, bytes |-> <<>>]
        ELSE IF ViewInBounds(r, view)
        THEN [ok |-> TRUE, err |-> "", ub |-> FALSE, bytes |-> ViewBytes(r, view)]
        ELSE [ok |-> TRUE, err |-> "", ub |-> TRUE, bytes |-> <<>>]

\* (a variant that releases the mapping and keeps the directory and the index)
closeKeepsIndex(r) == [r EXCEPT !.mappedFile_ = Unmapped]

\* Reader::close: the mapping is released, files_ and lookup_ are cleared
close(r) == [mappedFile_ |-> Unmapped, files_ |-> <<>>, lookup_ |-> <<>>]

-----------------------------------------------------------------------------
(* Writer *)

PendingFile(archivePath, sourcePath, data, fromDisk) ==
    [archivePath |-> archivePath, sourcePath |-> sourcePath,
     data |-> data, fromDisk |-> fromDisk]

\* (a variant that compares the stored paths without lowering their case)
IsDuplicateExact(pending, archivePath) ==
    \E i \in 1..Len(pending) : pending[i].archivePath = normalizeSlashes(archivePath)

\* the duplicate loop of both addFile overloads
IsDuplicate(pending, archivePath) ==
    \E i \in 1..Len(pending) :
        normalizePath(pending[i].archivePath) = normalizePath(archivePath)

\* (a variant that looks for a duplicate before it looks for the source file)
addFileFromDiskDuplicateFirst(pending, sourcePath, archivePath) ==
    IF IsDuplicate(pending, archivePath)
    THEN [ok |-> FALSE, err |-> ErrDuplicate, pending |-> pending]
    ELSE IF disk[sourcePath] = NoFile
    THEN [ok |-> FALSE, err |-> ErrNoSource, pending |-> pending]
    ELSE [ok |-> TRUE, err |-> "",
          pending |-> Append(pending,
                        PendingFile(normalizeSlashes(archivePath), sourcePath, <<>>, TRUE))]

\* Writer::addFile(sourcePath, archivePath): what it returns and the new pending list
addFileFromDisk(pending, sourcePath, archivePath) ==
    IF disk[sourcePath] = NoFile
    THEN [ok |-> FALSE, err |-> ErrNoSource, pending |-> pending]
    ELSE IF IsDuplicate(pending, archivePath)
    THEN [ok |-> FALSE, err |-> ErrDuplicate, pending |-> pending]
    ELSE [ok |-> TRUE, err |-> "",
          pending |-> Append(pending,
                        PendingFile(normalizeSlashes(archivePath), sourcePath, <<>>, TRUE))]

\* (a variant that puts the new file in front of the pending list)
addFileFromMemoryFront(pending, data, archivePath) ==
    IF IsDuplicate(pending, archivePath)
    THEN [ok |-> FALSE, err |-> ErrDuplicate, pending |-> pending]
    ELSE [ok |-> TRUE, err |-> "",
          pending |-> <<PendingFile(normalizeSlashes(archivePath), None, data, FALSE)>>
                        \o pending]

\* Writer::addFile(data, archivePath)
addFileFromMemory(pending, data, archivePath) ==
    IF IsDuplicate(pending, archivePath)
    THEN [ok |-> FALSE, err |-> ErrDuplicate, pending |-> pending]
    ELSE [ok |-> TRUE, err |-> "",
          pending |-> Append(pending,
                        PendingFile(normalizeSlashes(archivePath), None, data, FALSE))]

RECURSIVE SumOver(_, _)
SumOver(f, n) == IF n = 0 THEN 0 ELSE f[n] + SumOver(f, n - 1)

Zeros(n) == [i \in 1..n |-> 0]

\* memcpy(buf + pos, bytes, Len(bytes)); the part of the copy that lies inside buf
StoreAt(buf, pos, bytes) ==
    [i \in 1..Len(buf) |->
        IF i > pos /\ i <= pos + Len(bytes) THEN bytes[i - pos] ELSE buf[i]]

\* size of the directory records of the first n pending files
DirectorySize(pending, n) ==
    SumOver([j \in 1..n |-> 8 + Len(pending[j].archivePath) + 1], n)

\* std::filesystem::file_size of a pending file's source, -1 for an error
StatSize(d, pf) ==
    IF pf.fromDisk
    THEN (IF d[pf.sourcePath] = NoFile THEN -1 ELSE Len(d[pf.sourcePath]))
    ELSE Len(pf.data)

StatFails(d, pending) ==
    \E i \in 1..Len(pending) : StatSize(d, pending[i]) < 0

FilesDataSize(d, pending) ==
    SumOver([j \in 1..Len(pending) |-> StatSize(d, pending[j])], Len(pending))

TotalSize(d, pending) ==
    headerSize + DirectorySize(pending, Len(pending)) + FilesDataSize(d, pending)

\* write, step 3: the header, total size and file count in big-endian order
HeaderBytes(totalSize, fileCount) ==
    Magic \o htobe32(U32(totalSize)) \o htobe32(U32(fileCount)) \o Zeros(4)

\* write, step 4: the paths and their terminators, the offset and size slots left as
\* they are
RECURSIVE WriteDirectory(_, _, _, _)
WriteDirectory(buf, pending, i, pos) ==
    IF i > Len(pending)
    THEN buf
    ELSE LET path == pending[i].archivePath
             b1 == StoreAt(buf, pos + 8, path)
             b2 == StoreAt(b1, pos + 8 + Len(path), <<0>>)
         IN  WriteDirectory(b2, pending, i + 1, pos + 8 + Len(path) + 1)

\* (a variant that counts the offset from the end of the header)
EntryOffsetAfterHeader(pos) == U32(pos - headerSize)

\* write, step 5: the file data, the offset and size slots, the entries_ snapshot
EntryOffset(pos) == U32(pos)

\* (a source that is the destination itself is read through the shared mapping)
RECURSIVE DataPass(_, _, _, _, _, _, _)
DataPass(d, destPath, pending, buf, i, pos, entries) ==
    IF i > Len(pending)
    THEN [ok |-> TRUE, err |-> "", buf |-> buf, entries |-> entries]
    ELSE LET pf == pending[i] IN
         IF pf.fromDisk /\ d[pf.sourcePath] = NoFile
         THEN [ok |-> FALSE, err |-> ErrOpenSource, buf |-> buf, entries |-> entries]
         ELSE LET fileData == IF ~pf.fromDisk THEN pf.data
                              ELSE IF pf.sourcePath = destPath THEN buf
                              ELSE d[pf.sourcePath]
                  b1 == StoreAt(buf, pos, fileData)
                  entryPos == headerSize + DirectorySize(pending, i - 1)
                  b2 == StoreAt(b1, entryPos, htobe32(EntryOffset(pos)))
                  b3 == StoreAt(b2, entryPos + 4, htobe32(U32(Len(fileData))))
                  entry == FileEntry(pf.archivePath, normalizePath(pf.archivePath),
                                     EntryOffset(pos), U32(Len(fileData)))
              IN  DataPass(d, destPath, pending, b3, i + 1, pos + Len(fileData),
                           Append(entries, entry))

\* what the system does during a write: which system call of MappedFile::openWrite or
\* MappedFile::flush fails, if any (for the ofstream of the empty archive, any failure
\* of "open"); "ifstream": the source file exists but cannot be opened for reading
WriteOutcomes == {"ok", "open", "ftruncate", "mmap", "ifstream", "msync"}

\* the files an ifstream can open
Readable(d, sys) == IF sys = "ifstream" THEN [d EXCEPT ![SrcPath] = NoFile] ELSE d

\* (a variant that stores the size field without htobe32)
writeEmptyHostOrder(d, entries, destPath, canCreate) ==
    IF ~canCreate
    THEN [ok |-> FALSE, err |-> ErrCreateOutput, disk |-> d, entries |-> entries]
    ELSE [ok |-> TRUE, err |-> "",
          disk |-> [d EXCEPT ![destPath] =
                      Magic \o HostBytes(U32(headerSize)) \o Zeros(4) \o Zeros(4)],
          entries |-> <<>>]

\* Writer::write with no pending files: the header alone, through an ofstream
writeEmpty(d, entries, destPath, canCreate) ==
    IF ~canCreate
    THEN [ok |-> FALSE, err |-> ErrCreateOutput, disk |-> d, entries |-> entries]
    ELSE [ok |-> TRUE, err |-> "",
          disk |-> [d EXCEPT ![destPath] =
                      Magic \o htobe32(U32(headerSize)) \o Zeros(4) \o Zeros(4)],
          entries |-> <<>>]

\* Writer::write with pending files: size pass, mapping, header, directory, data, flush
writeFiles(d, pending, entries, destPath, sys) ==
    IF StatFails(d, pending)
    THEN [ok |-> FALSE, err |-> ErrStat, disk |-> d, entries |-> entries]
    ELSE IF sys = "open"
    THEN [ok |-> FALSE, err |-> ErrCreateWrite, disk |-> d, entries |-> entries]
    ELSE IF sys = "ftruncate"
    THEN [ok |-> FALSE, err |-> ErrSetSize,
          disk |-> [d EXCEPT ![destPath] = <<>>], entries |-> entries]
    ELSE IF sys = "mmap"
    THEN [ok |-> FALSE, err |-> ErrMap,
          disk |-> [d EXCEPT ![destPath] = Zeros(TotalSize(d, pending))],
          entries |-> entries]
    ELSE LET totalSize == TotalSize(d, pending)
             d1 == [d EXCEPT ![destPath] = Zeros(totalSize)]
             b1 == StoreAt(Zeros(totalSize), 0, HeaderBytes(totalSize, Len(pending)))
             b2 == WriteDirectory(b1, pending, 1, headerSize)
             r == DataPass(Readable(d1, sys), destPath, pending, b2, 1,
                           headerSize + DirectorySize(pending, Len(pending)), <<>>)
             d2 == [d EXCEPT ![destPath] = r.buf]
         IN  IF ~r.ok
             THEN [ok |-> FALSE, err |-> r.err, disk |-> d2, entries |-> r.entries]
             ELSE IF sys = "msync"
             THEN [ok |-> FALSE, err |-> ErrSync, disk |-> d2, entries |-> r.entries]
             ELSE [ok |-> TRUE, err |-> "", disk |-> d2, entries |-> r.entries]

\* Writer::write
write(d, pending, entries, destPath, sys) ==
    IF Len(pending) = 0
    THEN writeEmpty(d, entries, destPath, sys # "open")
    ELSE writeFiles(d, pending, entries, destPath, sys)

-----------------------------------------------------------------------------
(* Reader::open, Reader::extract *)

\* Reader::open: the Reader it returns (a closed one stands for std::nullopt)
open(path) ==
    LET m == openRead(path) IN
    IF ~m.ok
    THEN [ok |-> FALSE, err |-> m.err, reader |-> ReaderClosed]
    ELSE LET r == parse(m.mapped.data) IN
         IF ~r.ok
         THEN [ok |-> FALSE, err |-> r.err, reader |-> ReaderClosed]
         ELSE [ok |-> TRUE, err |-> "",
               reader |-> [mappedFile_ |-> m.mapped, files_ |-> r.files_,
                           lookup_ |-> r.lookup_]]

\* std::filesystem::create_directories(p) without an error_code: throws when it fails
CreateDirectories(dirsOK) == IF dirsOK THEN "returned" ELSE "threw"

Returned(ok, err, d) == [how |-> "returned", ok |-> ok, err |-> err, disk |-> d]

\* Reader::extract; `written` is how many bytes reach the file when the write fails
extract(r, d, entry, destPath, dirsOK, canCreate, canWrite, written) ==
    LET view == getFileView(r, entry) IN
    IF view.size = U32(0)
    THEN Returned(FALSE, ErrInvalidBounds, d)
    ELSE IF CreateDirectories(dirsOK) = "threw"
    THEN [how |-> "threw", ok |-> FALSE, err |-> "filesystem_error", disk |-> d]
    ELSE IF ~canCreate
    THEN Returned(FALSE, ErrCreateOutput, d)
    ELSE IF ~ViewInBounds(r, view)
    THEN [how |-> "undefined", ok |-> FALSE, err |-> "", disk |-> d]
    ELSE IF ~canWrite
    THEN Returned(FALSE, ErrWriteOutput,
                  [d EXCEPT ![destPath] = SubSeq(ViewBytes(r, view), 1, written)])
    ELSE Returned(TRUE, "", [d EXCEPT ![destPath] = ViewBytes(r, view)])

-----------------------------------------------------------------------------
(* MappedFile objects and the resources of the operating system (POSIX backend) *)

\* most MappedFile objects alive at once
MaxObjects == 2
\* most calls on MappedFile objects in one run
MaxObjCalls == 3
Slots == 1..MaxObjects

\* data_: nullptr, MAP_FAILED, or the address of a mapping (1, 2, ...)
NullPtr == 0
MapFailed == -1
\* fd_: -1, or a descriptor (3, 4, ...: 0..2 are the standard streams)
NoFd == -1
FirstFd == 3

\* a slot that holds no object (not constructed yet, or destroyed)
NoObject == [alive |-> FALSE, fd_ |-> NoFd, data_ |-> NullPtr, size_ |-> 0,
             writable_ |-> FALSE]
\* MappedFile::MappedFile(): the default member initializers
DefaultMapped == [alive |-> TRUE, fd_ |-> NoFd, data_ |-> NullPtr, size_ |-> 0,
                  writable_ |-> FALSE]

\* no descriptor, no mapping; doubleRelease records a close or munmap of something the
\* process does not hold
NoResources == [fds |-> {}, maps |-> <<>>, doubleRelease |-> FALSE]

NoObjects == [o \in Slots |-> NoObject]

\* a world: the objects, the resources, the files
World(o, r, d) == [objs |-> o, os |-> r, disk |-> d]

\* ::open returns the lowest descriptor not in use; mmap returns an unused address
NewFd(r) == CHOOSE fd \in FirstFd..(FirstFd + Cardinality(r.fds)) :
                /\ fd \notin r.fds
                /\ \A g \in FirstFd..(fd - 1) : g \in r.fds
NewAddr(r) == CHOOSE a \in 1..(Len(r.maps) + 1) : a \notin DOMAIN r.maps \/ r.maps[a].size = 0

\* ::close(fd)
sysClose(r, fd) ==
    IF fd \in r.fds THEN [r EXCEPT !.fds = @ \ {fd}]
    ELSE [r EXCEPT !.doubleRelease = TRUE]

\* munmap(addr, size); munmap(MAP_FAILED, size) fails with EINVAL and releases nothing
sysMunmap(r, addr) ==
    IF addr = MapFailed THEN r
    ELSE IF addr \in DOMAIN r.maps /\ r.maps[addr].size > 0
    THEN [r EXCEPT !.maps[addr] = [path |-> None, size |-> 0]]
    ELSE [r EXCEPT !.doubleRelease = TRUE]

\* mmap(nullptr, size, ..., fd, 0) of the file at path
sysMmap(r, path, size) ==
    LET a == NewAddr(r)
    IN  IF a \in DOMAIN r.maps
        THEN [r EXCEPT !.maps[a] = [path |-> path, size |-> size]]
        ELSE [r EXCEPT !.maps = Append(@, [path |-> path, size |-> size])]

\* (a variant that unmaps and closes but leaves data_ as it was)
mfCleanupKeepsData(w, o) ==
    LET m  == w.objs[o]
        r1 == IF m.data_ # NullPtr THEN sysMunmap(w.os, m.data_) ELSE w.os
        r2 == IF m.fd_ >= 0 THEN sysClose(r1, m.fd_) ELSE r1
    IN  [w EXCEPT !.os = r2,
                  !.objs[o] = [m EXCEPT !.fd_ = NoFd, !.size_ = 0, !.writable_ = FALSE]]

\* MappedFile::cleanup (MappedFile::close calls it)
mfCleanup(w, o) ==
    LET m  == w.objs[o]
        r1 == IF m.data_ # NullPtr THEN sysMunmap(w.os, m.data_) ELSE w.os
        r2 == IF m.fd_ >= 0 THEN sysClose(r1, m.fd_) ELSE r1
    IN  [w EXCEPT !.os = r2,
                  !.objs[o] = [m EXCEPT !.data_ = NullPtr, !.fd_ = NoFd, !.size_ = 0,
                                        !.writable_ = FALSE]]

\* MappedFile::~MappedFile
mfDestroy(w, o) == [mfCleanup(w, o) EXCEPT !.objs[o] = NoObject]

\* the result of a MappedFile operation: what it returned and the world it leaves
MfResult(ok, err, w) == [ok |-> ok, err |-> err, w |-> w]

\* which system call fails inside openRead / openWrite, if any
ReadOutcomes == {"ok", "open", "fstat", "mmap"}
OpenWriteOutcomes == {"ok", "open", "ftruncate", "mmap"}

\* MappedFile::openRead (POSIX branch)
mfOpenRead(w, o, path, sys) ==
    LET w0 == mfCleanup(w, o) IN
    IF w0.disk[path] = NoFile \/ sys = "open"
    THEN MfResult(FALSE, ErrOpenRead, w0)
    ELSE LET fd == NewFd(w0.os)
             w1 == [w0 EXCEPT !.os.fds = @ \cup {fd}, !.objs[o].fd_ = fd]
         IN  IF sys = "fstat"
             THEN MfResult(FALSE, ErrStat, mfCleanup(w1, o))
             ELSE IF Len(w1.disk[path]) = 0
             THEN MfResult(FALSE, ErrEmptyFile, mfCleanup(w1, o))
             ELSE LET w2 == [w1 EXCEPT !.objs[o].size_ = Len(w1.disk[path])] IN
                  IF sys = "mmap"
                  THEN MfResult(FALSE, ErrMap,
                                mfCleanup([w2 EXCEPT !.objs[o].data_ = MapFailed], o))
                  ELSE MfResult(TRUE, "",
                           [w2 EXCEPT !.os = sysMmap(@, path, w2.objs[o].size_),
                                      !.objs[o].data_ = NewAddr(w2.os),
                                      !.objs[o].writable_ = FALSE])

\* MappedFile::openWrite (POSIX branch)
mfOpenWrite(w, o, path, size, sys) ==
    LET w0 == mfCleanup(w, o) IN
    IF size = 0
    THEN MfResult(FALSE, ErrZeroSize, w0)
    ELSE LET ws == [w0 EXCEPT !.objs[o].size_ = size] IN
         IF sys = "open"
         THEN MfResult(FALSE, ErrCreateWrite, ws)
         ELSE LET fd == NewFd(ws.os)
                  w1 == [ws EXCEPT !.os.fds = @ \cup {fd}, !.objs[o].fd_ = fd,
                                   !.disk[path] = <<>>]
              IN  IF sys = "ftruncate"
                  THEN MfResult(FALSE, ErrSetSize, mfCleanup(w1, o))
                  ELSE LET w2 == [w1 EXCEPT !.disk[path] = Zeros(size)] IN
                       IF sys = "mmap"
                       THEN MfResult(FALSE, ErrMap,
                                mfCleanup([w2 EXCEPT !.objs[o].data_ = MapFailed], o))
                       ELSE MfResult(TRUE, "",
                                [w2 EXCEPT !.os = sysMmap(@, path, size),
                                           !.objs[o].data_ = NewAddr(w2.os),
                                           !.objs[o].writable_ = TRUE])

\* (a variant that does not look at writable_)
mfFlushAnyMapping(w, o, syncOK) ==
    IF w.objs[o].data_ = NullPtr
    THEN MfResult(FALSE, ErrCannotFlush, w)
    ELSE IF ~syncOK THEN MfResult(FALSE, ErrSync, w)
    ELSE MfResult(TRUE, "", w)

\* MappedFile::flush: changes nothing in the object
mfFlush(w, o, syncOK) ==
    IF w.objs[o].data_ = NullPtr \/ ~w.objs[o].writable_
    THEN MfResult(FALSE, ErrCannotFlush, w)
    ELSE IF ~syncOK THEN MfResult(FALSE, ErrSync, w)
    ELSE MfResult(TRUE, "", w)

\* the members of `other` after a move took them
MovedFrom(m) == [m EXCEPT !.fd_ = NoFd, !.data_ = NullPtr, !.size_ = 0,
                          !.writable_ = FALSE]

\* (a variant that copies the members and leaves `other` as it was)
mfMoveConstructCopy(w, dst, src) == [w EXCEPT !.objs[dst] = w.objs[src]]

\* MappedFile::MappedFile(MappedFile &&other): dst is constructed from src
mfMoveConstruct(w, dst, src) ==
    [w EXCEPT !.objs[dst] = w.objs[src], !.objs[src] = MovedFrom(w.objs[src])]

\* (a variant that does not close the destination first)
mfMoveAssignNoClose(w, dst, src) ==
    IF dst = src THEN w
    ELSE [w EXCEPT !.objs[dst] = w.objs[src], !.objs[src] = MovedFrom(w.objs[src])]

\* MappedFile::operator=(MappedFile &&other)
mfMoveAssign(w, dst, src) ==
    IF dst = src THEN w
    ELSE LET w0 == mfCleanup(w, dst)
         IN  [w0 EXCEPT !.objs[dst] = w0.objs[src],
                        !.objs[src] = MovedFrom(w0.objs[src])]

\* MappedFile::isOpen, size, data (the bytes of the file behind the mapping)
mfIsOpen(m) == m.data_ # NullPtr
mfSize(m) == m.size_

\* Reader::open seen from its MappedFile: `loc` is the local Reader, `dst` the Reader in
\* the returned optional; on every path the local is destroyed
mfReaderOpen(w, dst, loc, path, sys) ==
    LET w0 == [w EXCEPT !.objs[loc] = DefaultMapped]
        r  == mfOpenRead(w0, loc, path, sys)
    IN  IF ~r.ok
        THEN MfResult(FALSE, r.err, mfDestroy(r.w, loc))
        ELSE IF ~parse(r.w.disk[path]).ok
        THEN MfResult(FALSE, parse(r.w.disk[path]).err,
                      mfDestroy(mfCleanup(r.w, loc), loc))
        ELSE MfResult(TRUE, "", mfDestroy(mfMoveConstruct(r.w, dst, loc), loc))

-----------------------------------------------------------------------------
(* The Archive facade: a unique_ptr<Reader> and a unique_ptr<Writer> *)

\* most Archive objects
MaxArchives == 2
ArchiveSlots == 1..MaxArchives

\* a null unique_ptr<Reader>, a null unique_ptr<Writer>
NullReader == [set |-> FALSE, r |-> ReaderClosed]
NullWriter == [set |-> FALSE, pending |-> <<>>, entries |-> <<>>]

\* Archive::Archive(): both pointers null
DefaultArchive == [reader_ |-> NullReader, writer_ |-> NullWriter]
DefaultArchives == [a \in ArchiveSlots |-> DefaultArchive]

\* Archive::isReading, isWriting, isOpen
isReading(a) == a.reader_.set
isWriting(a) == a.writer_.set
isOpen(a) == isReading(a) \/ isWriting(a)

\* (a variant whose Archive also gets a Writer)
archiveOpenBoth(path) ==
    LET r == open(path) IN
    IF ~r.ok
    THEN [ok |-> FALSE, err |-> r.err, archive |-> DefaultArchive]
    ELSE [ok |-> TRUE, err |-> "",
          archive |-> [reader_ |-> [set |-> TRUE, r |-> r.reader],
                       writer_ |-> [set |-> TRUE, pending |-> <<>>, entries |-> <<>>]]]

\* Archive::open: the Archive in the returned optional (the default one for nullopt)
archiveOpen(path) ==
    LET r == open(path) IN
    IF ~r.ok
    THEN [ok |-> FALSE, err |-> r.err, archive |-> DefaultArchive]
    ELSE [ok |-> TRUE, err |-> "",
          archive |-> [reader_ |-> [set |-> TRUE, r |-> r.reader],
                       writer_ |-> NullWriter]]

\* Archive::create
archiveCreate ==
    [reader_ |-> NullReader,
     writer_ |-> [set |-> TRUE, pending |-> <<>>, entries |-> <<>>]]

\* Archive::addFile(sourcePath, archivePath)
archiveAddFileDisk(a, sourcePath, archivePath) ==
    IF ~a.writer_.set
    THEN [ok |-> FALSE, err |-> ErrNotWriting, archive |-> a]
    ELSE LET r == addFileFromDisk(a.writer_.pending, sourcePath, archivePath)
         IN  [ok |-> r.ok, err |-> r.err,
              archive |-> [a EXCEPT !.writer_.pending = r.pending]]

\* Archive::addFile(data, archivePath)
archiveAddFileMem(a, data, archivePath) ==
    IF ~a.writer_.set
    THEN [ok |-> FALSE, err |-> ErrNotWriting, archive |-> a]
    ELSE LET r == addFileFromMemory(a.writer_.pending, data, archivePath)
         IN  [ok |-> r.ok, err |-> r.err,
              archive |-> [a EXCEPT !.writer_.pending = r.pending]]

\* (a variant without the writer_ check: it writes with whatever the Writer fields hold)
archiveWriteUnguarded(d, a, destPath, sys) ==
    LET r == write(d, a.writer_.pending, a.writer_.entries, destPath, sys)
    IN  [ok |-> r.ok, err |-> r.err,
         archive |-> [a EXCEPT !.writer_.entries = r.entries], disk |-> r.disk]

\* Archive::write
archiveWrite(d, a, destPath, sys) ==
    IF ~a.writer_.set
    THEN [ok |-> FALSE, err |-> ErrNotWriting, archive |-> a, disk |-> d]
    ELSE LET r == write(d, a.writer_.pending, a.writer_.entries, destPath, sys)
         IN  [ok |-> r.ok, err |-> r.err,
              archive |-> [a EXCEPT !.writer_.entries = r.entries], disk |-> r.disk]

\* Archive::files
archiveFiles(a) ==
    IF a.reader_.set THEN a.reader_.r.files_
    ELSE IF a.writer_.set THEN a.writer_.entries
    ELSE <<>>

\* Archive::extract
archiveExtract(a, d, entry, destPath, dirsOK, canCreate, canWrite, written) ==
    IF ~a.reader_.set
    THEN Returned(FALSE, ErrNotReading, d)
    ELSE extract(a.reader_.r, d, entry, destPath, dirsOK, canCreate, canWrite, written)

\* Archive::extractToMemory
archiveExtractToMemory(a, entry) ==
    IF ~a.reader_.set
    THEN [ok |-> FALSE, err |-> ErrNotReading, ub |-> FALSE, bytes |-> <<>>]
    ELSE extractToMemory(a.reader_.r, entry)

\* Archive::fileCount: the Reader's files_.size(), else the Writer's pendingFiles_.size()
archiveFileCount(a) ==
    IF a.reader_.set THEN Len(a.reader_.r.files_)
    ELSE IF a.writer_.set THEN Len(a.writer_.pending)
    ELSE 0

\* Archive::findFile: 0 for nullptr
archiveFindFile(a, path) ==
    IF ~a.reader_.set THEN 0 ELSE findFile(a.reader_.r, path)

\* Archive::getFileView
archiveGetFileView(a, entry) ==
    IF ~a.reader_.set THEN EmptyView ELSE getFileView(a.reader_.r, entry)

\* (a variant of close that resets the Reader only)
archiveCloseReaderOnly(a) == [a EXCEPT !.reader_ = NullReader]

\* Archive::close: both pointers reset
archiveClose(a) == DefaultArchive

\* Archive::clear
archiveClear(a) ==
    IF a.writer_.set
    THEN [a EXCEPT !.writer_.pending = <<>>, !.writer_.entries = <<>>]
    ELSE a

\* Archive::operator=(Archive &&): each unique_ptr is moved, the source is left null
archiveMoveAssign(as, dst, src) ==
    IF dst = src THEN as
    ELSE [as EXCEPT ![dst] = as[src], ![src] = DefaultArchive]

-----------------------------------------------------------------------------
(* The calls, as actions *)

\* how: "returned", "threw" (an exception left the call), "undefined" (the call read
\* outside the mapping)
Call(op, arg, how, ok, err) ==
    [op |-> op, arg |-> arg, path |-> <<>>, obj |-> 0, how |-> how, ok |-> ok,
     err |-> err]
\* an addFile call and the archive path it was given
CallAdd(archivePath, ok, err) ==
    [Call("addFile", "", "returned", ok, err) EXCEPT !.path = archivePath]
NoCall == Call("none", "", "returned", TRUE, "")

NotWritten == [valid |-> FALSE, files |-> <<>>]

\* the (path, bytes) pairs the addFile calls stand for, given the sources on disk
Expected(d, adds) ==
    [i \in 1..Len(adds) |->
        [path |-> adds[i].archivePath,
         bytes |-> IF adds[i].fromDisk THEN d[adds[i].sourcePath] ELSE adds[i].data]]

\* the test fixture (re)writes or removes the source file
PutSource(c) ==
    /\ calls < MaxCalls
    /\ disk[SrcPath] # c
    /\ disk' = [disk EXCEPT ![SrcPath] = c]
    /\ last' = NoCall
    /\ calls' = calls + 1
    /\ UNCHANGED <<pendingFiles_, entries_, reader, added, wrote>>
    /\ UNCHANGED <<objs, os, archive>>

\* Writer::addFile(SrcPath, archivePath)
AddFileDisk(archivePath) ==
    /\ calls < MaxCalls
    /\ \E r \in {addFileFromDisk(pendingFiles_, SrcPath, archivePath)} :
        /\ Len(r.pending) <= MaxFiles
        /\ pendingFiles_' = r.pending
        /\ last' = [CallAdd(archivePath, r.ok, r.err) EXCEPT !.arg = SrcPath]
        /\ added' = IF r.ok
                    THEN Append(added, PendingFile(archivePath, SrcPath, <<>>, TRUE))
                    ELSE added
    /\ calls' = calls + 1
    /\ UNCHANGED <<disk, entries_, reader, wrote>>
    /\ UNCHANGED <<objs, os, archive>>

\* Writer::addFile(data, archivePath)
AddFileMem(data, archivePath) ==
    /\ calls < MaxCalls
    /\ \E r \in {addFileFromMemory(pendingFiles_, data, archivePath)} :
        /\ Len(r.pending) <= MaxFiles
        /\ pendingFiles_' = r.pending
        /\ last' = CallAdd(archivePath, r.ok, r.err)
        /\ added' = IF r.ok
                    THEN Append(added, PendingFile(archivePath, None, data, FALSE))
                    ELSE added
    /\ calls' = calls + 1
    /\ UNCHANGED <<disk, entries_, reader, wrote>>
    /\ UNCHANGED <<objs, os, archive>>

\* (a variant of write that consumes the pending list when it succeeds)
WriteConsumes(sys) ==
    /\ calls < MaxCalls
    /\ reader.mappedFile_.path # OutPath
    /\ \E r \in {write(disk, pendingFiles_, entries_, OutPath, sys)} :
        /\ disk' = r.disk
        /\ entries_' = r.entries
        /\ pendingFiles_' = IF r.ok THEN <<>> ELSE pendingFiles_
        /\ last' = Call("write", OutPath, "returned", r.ok, r.err)
        /\ wrote' = IF r.ok THEN [valid |-> TRUE, files |-> Expected(disk, added)]
                    ELSE IF r.disk = disk THEN wrote
                    ELSE NotWritten
    /\ calls' = calls + 1
    /\ UNCHANGED <<reader, added>>
    /\ UNCHANGED <<objs, os, archive>>

\* Writer::write(OutPath); the archive is not rewritten while a Reader maps it
Write(sys) ==
    /\ calls < MaxCalls
    /\ reader.mappedFile_.path # OutPath
    /\ \E r \in {write(disk, pendingFiles_, entries_, OutPath, sys)} :
        /\ disk' = r.disk
        /\ entries_' = r.entries
        /\ last' = Call("write", OutPath, "returned", r.ok, r.err)
        /\ wrote' = IF r.ok THEN [valid |-> TRUE, files |-> Expected(disk, added)]
                    ELSE IF r.disk = disk THEN wrote
                    ELSE NotWritten
    /\ calls' = calls + 1
    /\ UNCHANGED <<pendingFiles_, reader, added>>
    /\ UNCHANGED <<objs, os, archive>>

\* Writer::clear
Clear ==
    /\ calls < MaxCalls
    /\ pendingFiles_' = <<>>
    /\ entries_' = <<>>
    /\ added' = <<>>
    /\ last' = Call("clear", "", "returned", TRUE, "")
    /\ calls' = calls + 1
    /\ UNCHANGED <<disk, reader, wrote>>
    /\ UNCHANGED <<objs, os, archive>>

\* reader = Reader::open(path)
Open(path) ==
    /\ calls < MaxCalls
    /\ \E r \in {open(path)} :
        /\ reader' = r.reader
        /\ last' = Call("open", path, "returned", r.ok, r.err)
    /\ calls' = calls + 1
    /\ UNCHANGED <<disk, pendingFiles_, entries_, added, wrote>>
    /\ UNCHANGED <<objs, os, archive>>

\* Reader::close; the call is recorded with the file the Reader mapped
Close ==
    /\ calls < MaxCalls
    /\ reader' = close(reader)
    /\ last' = Call("close", reader.mappedFile_.path, "returned", TRUE, "")
    /\ calls' = calls + 1
    /\ UNCHANGED <<disk, pendingFiles_, entries_, added, wrote>>
    /\ UNCHANGED <<objs, os, archive>>

\* Reader::extract(files()[i], ExtPath)
Extract(i, dirsOK, canCreate, canWrite, written) ==
    /\ calls < MaxCalls
    /\ \E r \in {extract(reader, disk, reader.files_[i], ExtPath,
                         dirsOK, canCreate, canWrite, written)} :
        /\ disk' = r.disk
        /\ last' = Call("extract", ExtPath, r.how, r.ok, r.err)
    /\ calls' = calls + 1
    /\ UNCHANGED <<pendingFiles_, entries_, reader, added, wrote>>
    /\ UNCHANGED <<objs, os, archive>>

ExtractAny ==
    \E i \in 1..Len(reader.files_), dirsOK, canCreate, canWrite \in BOOLEAN :
        \E written \in 0..(IF canWrite \/ reader.files_[i].size.hi # 0 THEN 0
                          ELSE reader.files_[i].size.lo - 1) :
            Extract(i, dirsOK, canCreate, canWrite, written)

-----------------------------------------------------------------------------
(* Writer and Reader together: archives are built, written, opened, extracted *)

\* the source file the fixture prepared may or may not be there
Init ==
    /\ disk \in { [p \in Paths |-> IF p = SrcPath THEN c ELSE NoFile] :
                    c \in Contents \cup {NoFile} }
    /\ pendingFiles_ = <<>>
    /\ entries_ = <<>>
    /\ reader = ReaderClosed
    /\ last = NoCall
    /\ added = <<>>
    /\ wrote = NotWritten
    /\ calls = 0
    /\ objs = NoObjects
    /\ os = NoResources
    /\ archive = DefaultArchives

Next ==
    \/ \E c \in Contents \cup {NoFile} : PutSource(c)
    \/ \E p \in ArchivePaths : AddFileDisk(p)
    \/ \E c \in MemContents, p \in ArchivePaths : AddFileMem(c, p)
    \/ \E sys \in WriteOutcomes : Write(sys)
    \/ Clear
    \/ \E p \in Paths : Open(p)
    \/ Close
    \/ ExtractAny

Spec == Init /\ [][Next]_vars

-----------------------------------------------------------------------------
(* The Reader on archives it did not write: well-formed images with arbitrary      *)
(* directory fields, cut short, with a damaged magic or a wrong file count         *)

\* a directory record to be laid out: where its offset points ("data": at the data
\* section, "max": 0xFFFFFFFF), its size field, its path
RecordShapes == [off : {"data", "max"}, size : {0, 1, 2}, path : ArchivePaths]
PlainShapes == {sh \in RecordShapes : sh.off = "data" /\ sh.size <= 1}
ShapeLists(S) == UNION { [1..n -> S] : n \in 0..2 }
Tails == { <<>>, <<7>>, <<7, 7>> }

U32Max == [hi |-> 65535, lo |-> 65535]

RECURSIVE RecordBytes(_, _, _)
RecordBytes(shapes, i, dataStart) ==
    IF i > Len(shapes)
    THEN <<>>
    ELSE htobe32(IF shapes[i].off = "data" THEN U32(dataStart)
                 ELSE IF shapes[i].off = "header" THEN U32(4)
                 ELSE U32Max)
         \o htobe32(U32(shapes[i].size)) \o shapes[i].path \o <<0>>
         \o RecordBytes(shapes, i + 1, dataStart)

\* the archive file the reader tests build: header, records, data
ArchiveImage(shapes, count, tail) ==
    LET dirSize == SumOver([j \in 1..Len(shapes) |-> 8 + Len(shapes[j].path) + 1],
                           Len(shapes))
    IN  Magic \o htobe32(U32(headerSize + dirSize + Len(tail))) \o htobe32(count)
        \o Zeros(4) \o RecordBytes(shapes, 1, headerSize + dirSize) \o tail

FieldImages ==
    { ArchiveImage(sh, U32(Len(sh)), t) : sh \in ShapeLists(RecordShapes), t \in Tails }
PlainImages ==
    { ArchiveImage(sh, U32(Len(sh)), t) : sh \in ShapeLists(PlainShapes), t \in Tails }
CutImages ==
    UNION { { SubSeq(img, 1, k) : k \in 0..Len(img) } : img \in PlainImages }
BadMagicImages ==
    UNION { { [img EXCEPT ![k] = 88] : k \in {1, 4} \cap (1..Len(img)) } : img \in CutImages }
CountImages ==
    { ArchiveImage(sh, c, t) :
        sh \in ShapeLists(PlainShapes), t \in Tails,
        c \in { U32(3), U32(MaxFileCount), U32(MaxFileCount + 1), U32Max } }

CraftedImages == FieldImages \cup CutImages \cup BadMagicImages \cup CountImages

\* archives with one entry whose bytes are bytes [4, 4 + size) of the header
HeaderEntryImages ==
    { ArchiveImage(<< [off |-> "header", size |-> n, path |-> <<98>>] >>, U32(1), t) :
        n \in {4, 9}, t \in Tails }

\* what a Writer is given: up to MaxFiles files from memory under different paths
WriterInputs ==
    { inp \in UNION { [1..n -> [path : ArchivePaths, data : MemContents]] :
                        n \in 1..MaxFiles } :
        \A i, j \in 1..Len(inp) :
            i < j => normalizePath(inp[i].path) # normalizePath(inp[j].path) }

\* the pending list the addFile calls for inp leave
PendingOf(inp) ==
    [i \in 1..Len(inp) |->
        PendingFile(normalizeSlashes(inp[i].path), None, inp[i].data, FALSE)]

\* the archive a successful write of inp produces
WrittenArchive(inp) ==
    write([q \in Paths |-> NoFile], PendingOf(inp), <<>>, OutPath, "ok").disk[OutPath]

\* the written archives cut somewhere inside the directory
TruncatedArchives ==
    UNION { { SubSeq(WrittenArchive(inp), 1, k) :
                k \in headerSize..
                      (headerSize + DirectorySize(PendingOf(inp), Len(inp)) - 1) } :
            inp \in WriterInputs }

InitParse ==
    /\ disk \in { [p \in Paths |-> IF p = OutPath THEN img ELSE NoFile] :
                    img \in CraftedImages \cup HeaderEntryImages \cup TruncatedArchives }
    /\ pendingFiles_ = <<>>
    /\ entries_ = <<>>
    /\ reader = ReaderClosed
    /\ last = NoCall
    /\ added = <<>>
    /\ wrote = NotWritten
    /\ calls = 0
    /\ objs = NoObjects
    /\ os = NoResources
    /\ archive = DefaultArchives

NextParse ==
    \/ \E p \in Paths : Open(p)
    \/ Close
    \/ ExtractAny

SpecParse == InitParse /\ [][NextParse]_vars

-----------------------------------------------------------------------------
(* MappedFile objects are constructed, opened, moved, closed and destroyed *)

\* a call on (or producing) object o
CallObj(op, o, ok, err) == [Call(op, "", "returned", ok, err) EXCEPT !.obj = o]

\* sizes asked of openWrite
WriteSizes == {0, MaxDataLen}

\* the step leaves the world w and reports `call`
MappedStep(w, call) ==
    /\ objs' = w.objs
    /\ os' = w.os
    /\ disk' = w.disk
    /\ last' = call
    /\ calls' = calls + 1
    /\ UNCHANGED <<pendingFiles_, entries_, reader, added, wrote, archive>>

Here == World(objs, os, disk)

\* MappedFile m;
MNew(o) ==
    /\ calls < MaxObjCalls
    /\ ~objs[o].alive
    /\ MappedStep([Here EXCEPT !.objs[o] = DefaultMapped], CallObj("new", o, TRUE, ""))

\* m goes out of scope
MDestroy(o) ==
    /\ calls < MaxObjCalls
    /\ objs[o].alive
    /\ MappedStep(mfDestroy(Here, o), CallObj("destroy", o, TRUE, ""))

MOpenRead(o, path, sys) ==
    /\ calls < MaxObjCalls
    /\ objs[o].alive
    /\ \E r \in {mfOpenRead(Here, o, path, sys)} :
         MappedStep(r.w, [CallObj("openRead", o, r.ok, r.err) EXCEPT !.arg = path])

MOpenWrite(o, path, size, sys) ==
    /\ calls < MaxObjCalls
    /\ objs[o].alive
    /\ \E r \in {mfOpenWrite(Here, o, path, size, sys)} :
         MappedStep(r.w, [CallObj("openWrite", o, r.ok, r.err)
                            EXCEPT !.arg = path, !.path = <<size>>])

MClose(o) ==
    /\ calls < MaxObjCalls
    /\ objs[o].alive
    /\ MappedStep(mfCleanup(Here, o), CallObj("close", o, TRUE, ""))

MFlush(o, syncOK) ==
    /\ calls < MaxObjCalls
    /\ objs[o].alive
    /\ \E r \in {mfFlush(Here, o, syncOK)} :
         MappedStep(r.w, CallObj("flush", o, r.ok, r.err))

\* MappedFile dst(std::move(src));
MMoveConstruct(dst, src) ==
    /\ calls < MaxObjCalls
    /\ ~objs[dst].alive
    /\ objs[src].alive
    /\ MappedStep(mfMoveConstruct(Here, dst, src),
                  [CallObj("moveConstruct", dst, TRUE, "") EXCEPT !.path = <<src>>])

\* dst = std::move(src);
MMoveAssign(dst, src) ==
    /\ calls < MaxObjCalls
    /\ objs[dst].alive
    /\ objs[src].alive
    /\ MappedStep(mfMoveAssign(Here, dst, src),
                  [CallObj("moveAssign", dst, TRUE, "") EXCEPT !.path = <<src>>])

\* auto reader = Reader::open(path); its MappedFile ends up in slot dst
MReaderOpen(dst, loc, path, sys) ==
    /\ calls < MaxObjCalls
    /\ dst # loc
    /\ ~objs[dst].alive
    /\ ~objs[loc].alive
    /\ \E r \in {mfReaderOpen(Here, dst, loc, path, sys)} :
         MappedStep(r.w, [CallObj("Reader::open", dst, r.ok, r.err) EXCEPT !.arg = path])

\* the files the objects are opened on: a source that may be missing or empty, an
\* archive that parses and one that does not
MappedDisks ==
    { [p \in Paths |-> IF p = SrcPath THEN c ELSE IF p = OutPath THEN img ELSE NoFile] :
        c \in Contents \cup {NoFile},
        img \in { ArchiveImage(<<>>, U32(0), <<>>), ArchiveImage(<<>>, U32(1), <<>>) } }

InitMapped ==
    /\ disk \in MappedDisks
    /\ pendingFiles_ = <<>>
    /\ entries_ = <<>>
    /\ reader = ReaderClosed
    /\ last = NoCall
    /\ added = <<>>
    /\ wrote = NotWritten
    /\ calls = 0
    /\ objs \in [Slots -> {NoObject, DefaultMapped}]
    /\ os = NoResources
    /\ archive = DefaultArchives

NextMapped ==
    \/ \E o \in Slots : MNew(o)
    \/ \E o \in Slots : MDestroy(o)
    \/ \E o \in Slots, p \in {SrcPath, OutPath}, sys \in ReadOutcomes : MOpenRead(o, p, sys)
    \/ \E o \in Slots, n \in WriteSizes, sys \in OpenWriteOutcomes :
           MOpenWrite(o, ExtPath, n, sys)
    \/ \E o \in Slots : MClose(o)
    \/ \E o \in Slots, syncOK \in BOOLEAN : MFlush(o, syncOK)
    \/ \E dst, src \in Slots : MMoveConstruct(dst, src)
    \/ \E dst, src \in Slots : MMoveAssign(dst, src)
    \/ \E dst, loc \in Slots, sys \in ReadOutcomes : MReaderOpen(dst, loc, OutPath, sys)

SpecMapped == InitMapped /\ [][NextMapped]_vars

-----------------------------------------------------------------------------
(* Archive objects are created, opened, used in either mode, moved and closed *)

\* archive paths handed to Archive::addFile
FacadePaths == { <<98>>, <<99>> }

\* a FileEntry that comes from no archive
StrayEntry == FileEntry(<<98>>, <<98>>, U32(0), U32(0))

\* the entries a caller can hand to Archive::extract: those of any Archive's files()
FacadeEntries ==
    {StrayEntry} \cup
    UNION { { archiveFiles(archive[b])[i] : i \in 1..Len(archiveFiles(archive[b])) } :
            b \in ArchiveSlots }

\* some Archive's Reader maps the file at path
FacadeMaps(path) ==
    \E b \in ArchiveSlots :
        archive[b].reader_.set /\ archive[b].reader_.r.mappedFile_.path = path

\* the step reports a call on Archive a
FacadeStep(op, a, arg, how, ok, err) ==
    /\ last' = [Call(op, arg, how, ok, err) EXCEPT !.obj = a]
    /\ calls' = calls + 1
    /\ UNCHANGED <<pendingFiles_, entries_, reader, added, wrote, objs, os>>

\* archive[a] = *Archive::open(path) when the optional holds a value
AOpen(a, path) ==
    /\ calls < MaxCalls
    /\ \E r \in {archiveOpen(path)} :
        /\ archive' = IF r.ok THEN [archive EXCEPT ![a] = r.archive] ELSE archive
        /\ FacadeStep("Archive::open", a, path, "returned", r.ok, r.err)
    /\ disk' = disk

\* archive[a] = Archive::create()
ACreate(a) ==
    /\ calls < MaxCalls
    /\ archive' = [archive EXCEPT ![a] = archiveCreate]
    /\ FacadeStep("Archive::create", a, "", "returned", TRUE, "")
    /\ disk' = disk

\* archive[a].addFile(SrcPath, archivePath)
AAddFileDisk(a, archivePath) ==
    /\ calls < MaxCalls
    /\ \E r \in {archiveAddFileDisk(archive[a], SrcPath, archivePath)} :
        /\ archive' = [archive EXCEPT ![a] = r.archive]
        /\ FacadeStep("Archive::addFile", a, SrcPath, "returned", r.ok, r.err)
    /\ disk' = disk

\* archive[a].addFile(data, archivePath)
AAddFileMem(a, data, archivePath) ==
    /\ calls < MaxCalls
    /\ \E r \in {archiveAddFileMem(archive[a], data, archivePath)} :
        /\ archive' = [archive EXCEPT ![a] = r.archive]
        /\ FacadeStep("Archive::addFile", a, "", "returned", r.ok, r.err)
    /\ disk' = disk

\* archive[a].write(OutPath); a Writer does not rewrite the file while a Reader maps it
AWrite(a, sys) ==
    /\ calls < MaxCalls
    /\ isWriting(archive[a]) => ~FacadeMaps(OutPath)
    /\ \E r \in {archiveWrite(disk, archive[a], OutPath, sys)} :
        /\ archive' = [archive EXCEPT ![a] = r.archive]
        /\ disk' = r.disk
        /\ FacadeStep("Archive::write", a, OutPath, "returned", r.ok, r.err)

\* archive[a].extract(entry, ExtPath)
AExtract(a, entry, dirsOK, canCreate) ==
    /\ calls < MaxCalls
    /\ \E r \in {archiveExtract(archive[a], disk, entry, ExtPath,
                                dirsOK, canCreate, TRUE, 0)} :
        /\ disk' = r.disk
        /\ FacadeStep("Archive::extract", a, ExtPath, r.how, r.ok, r.err)
    /\ archive' = archive

\* archive[a].extractToMemory(entry)
AExtractToMemory(a, entry) ==
    /\ calls < MaxCalls
    /\ \E r \in {archiveExtractToMemory(archive[a], entry)} :
        FacadeStep("Archive::extractToMemory", a, "",
                   IF r.ub THEN "undefined" ELSE "returned", r.ok, r.err)
    /\ archive' = archive
    /\ disk' = disk

AExtractAny ==
    \E a \in ArchiveSlots, e \in FacadeEntries, dirsOK, canCreate \in BOOLEAN :
        AExtract(a, e, dirsOK, canCreate)

AExtractToMemoryAny ==
    \E a \in ArchiveSlots, e \in FacadeEntries : AExtractToMemory(a, e)

\* archive[a].close()
AClose(a) ==
    /\ calls < MaxCalls
    /\ archive' = [archive EXCEPT ![a] = archiveClose(archive[a])]
    /\ FacadeStep("Archive::close", a, "", "returned", TRUE, "")
    /\ disk' = disk

\* archive[a].clear()
AClear(a) ==
    /\ calls < MaxCalls
    /\ archive' = [archive EXCEPT ![a] = archiveClear(archive[a])]
    /\ FacadeStep("Archive::clear", a, "", "returned", TRUE, "")
    /\ disk' = disk

\* archive[dst] = std::move(archive[src])
AMoveAssign(dst, src) ==
    /\ calls < MaxCalls
    /\ archive' = archiveMoveAssign(archive, dst, src)
    /\ FacadeStep("Archive::moveAssign", dst, "", "returned", TRUE, "")
    /\ disk' = disk

\* a source file, and at OutPath nothing, a one-file archive, or a file that is no archive
FacadeDisks ==
    { [p \in Paths |-> IF p = SrcPath THEN c ELSE IF p = OutPath THEN img ELSE NoFile] :
        c \in {NoFile, <<7>>},
        img \in { NoFile, <<7>>,
                  ArchiveImage(<< [off |-> "data", size |-> 1, path |-> <<98>>] >>,
                               U32(1), <<7>>) } }

InitArchive ==
    /\ disk \in FacadeDisks
    /\ pendingFiles_ = <<>>
    /\ entries_ = <<>>
    /\ reader = ReaderClosed
    /\ last = NoCall
    /\ added = <<>>
    /\ wrote = NotWritten
    /\ calls = 0
    /\ objs = NoObjects
    /\ os = NoResources
    /\ archive = DefaultArchives

NextArchive ==
    \/ \E a \in ArchiveSlots, p \in {SrcPath, OutPath} : AOpen(a, p)
    \/ \E a \in ArchiveSlots : ACreate(a)
    \/ \E a \in ArchiveSlots, p \in FacadePaths : AAddFileDisk(a, p)
    \/ \E a \in ArchiveSlots, c \in MemContents, p \in FacadePaths : AAddFileMem(a, c, p)
    \/ \E a \in ArchiveSlots, sys \in WriteOutcomes : AWrite(a, sys)
    \/ AExtractAny
    \/ AExtractToMemoryAny
    \/ \E a \in ArchiveSlots : AClose(a)
    \/ \E a \in ArchiveSlots : AClear(a)
    \/ \E dst, src \in ArchiveSlots : AMoveAssign(dst, src)

SpecArchive == InitArchive /\ [][NextArchive]_vars

-----------------------------------------------------------------------------
(* What the properties speak of, stated without the program's own helpers *)

\* a character up to letter case and up to the kind of slash
Fold(c) == IF c = 92 THEN 47 ELSE IF c \in 65..90 THEN c + 32 ELSE c
SamePath(p, q) == Len(p) = Len(q) /\ \A k \in 1..Len(p) : Fold(p[k]) = Fold(q[k])

\* a path with its backslashes turned, its case kept
SlashOnly(p) == [k \in 1..Len(p) |-> IF p[k] = 92 THEN 47 ELSE p[k]]

\* paths a caller may look up: one or two characters of A a B b \ /
QueryChars == {65, 97, 66, 98, 92, 47}
Queries == [1..1 -> QueryChars] \cup [1..2 -> QueryChars]

HasMagic(bytes) == Len(bytes) >= 4 /\ SubSeq(bytes, 1, 4) = Magic

ReaderOn(path) == reader.mappedFile_.isOpen /\ reader.mappedFile_.path = path

\* the last call opened the archive that the last successful write produced
OpenedWritten == last.op = "open" /\ last.arg = OutPath /\ wrote.valid

-----------------------------------------------------------------------------
(* Properties *)

\* C1: round trip. Opening the archive a successful write produced succeeds, findFile
\* finds every added path, and extractToMemory on that entry returns the bytes added
\* under that path.
C1_RoundTrip ==
    OpenedWritten =>
        /\ last.ok
        /\ \A i \in 1..Len(wrote.files) :
             LET idx == findFile(reader, wrote.files[i].path) IN
             /\ idx # 0
             /\ extractToMemory(reader, reader.files_[idx]).ok
             /\ ~extractToMemory(reader, reader.files_[idx]).ub
             /\ extractToMemory(reader, reader.files_[idx]).bytes = wrote.files[i].bytes

\* the same round trip for the added files that are not empty
RoundTripNonEmpty ==
    OpenedWritten =>
        /\ last.ok
        /\ \A i \in 1..Len(wrote.files) :
             LET idx == findFile(reader, wrote.files[i].path) IN
             /\ idx # 0
             /\ Len(wrote.files[i].bytes) > 0 =>
                  /\ extractToMemory(reader, reader.files_[idx]).ok
                  /\ ~extractToMemory(reader, reader.files_[idx]).ub
                  /\ extractToMemory(reader, reader.files_[idx]).bytes
                       = wrote.files[i].bytes

\* C2: after write and open, files() has one entry per added file, in the order of the
\* addFile calls, and entry i's size is the byte length of the i-th added file.
C2_DirectoryOrder ==
    OpenedWritten =>
        /\ last.ok
        /\ Len(reader.files_) = Len(wrote.files)
        /\ \A i \in 1..Len(wrote.files) :
             /\ SamePath(reader.files_[i].path, wrote.files[i].path)
             /\ reader.files_[i].size = U32(Len(wrote.files[i].bytes))

C2_Witness ==
    /\ OpenedWritten
    /\ last.ok
    /\ Len(reader.files_) = 2
    /\ \E i \in 1..2 : added[i].fromDisk /\ Len(wrote.files[i].bytes) = 1
    /\ \E i \in 1..2 : ~added[i].fromDisk /\ Len(wrote.files[i].bytes) = 0

\* C3: after a successful open every entry has offset + size <= length of the mapped
\* archive, the sum being the mathematical sum of the two 32-bit fields.
C3_EntriesInBounds ==
    reader.mappedFile_.isOpen =>
        \A i \in 1..Len(reader.files_) :
            MathSumLeq(reader.files_[i].offset, reader.files_[i].size,
                       Len(reader.mappedFile_.data))

\* C4: findFile(q) returns the entry whose path equals q up to letter case and up to the
\* kind of slash, and null when there is no such entry.
C4_CaseInsensitiveLookup ==
    reader.mappedFile_.isOpen =>
        \A q \in Queries :
            /\ \A i \in 1..Len(reader.files_) :
                 SamePath(q, reader.files_[i].path) => findFile(reader, q) = i
            /\ (\A i \in 1..Len(reader.files_) : ~SamePath(q, reader.files_[i].path))
                 => findFile(reader, q) = 0

C4_Witness ==
    /\ reader.mappedFile_.isOpen
    /\ Len(reader.files_) = 2
    /\ findFile(reader, <<65, 92>>) = 2
    /\ reader.files_[2].path = <<97, 47>>
    /\ findFile(reader, <<66, 66>>) = 0

\* a pending entry has the path p, up to letter case and slashes
PendingHas(p) ==
    \E i \in 1..Len(pendingFiles_) : SamePath(pendingFiles_[i].archivePath, p)

\* C5: an addFile call (either overload) whose archive path equals that of a pending
\* entry up to letter case and slashes fails with a non-empty error and leaves the
\* pending list as it was.
C5_DuplicateRejected ==
    [][ (last'.op = "addFile" /\ PendingHas(last'.path))
            => (/\ ~last'.ok
                /\ last'.err # ""
                /\ pendingFiles_' = pendingFiles_) ]_vars

C5_Witness ==
    /\ last.op = "addFile"
    /\ ~last.ok
    /\ last.err = ErrDuplicate
    /\ Len(pendingFiles_) = 1
    /\ pendingFiles_[1].archivePath = <<65, 47>>

\* an error message that mentions "no files" (none of the program's messages does)
MentionsNoFiles(err) == err \in {"No files to write", "Archive has no files"}

\* C6: write on a Writer with no pending files returns failure, the error message empty
\* or mentioning "no files".
C6_EmptyWriteFails ==
    (last.op = "write" /\ Len(pendingFiles_) = 0) =>
        (~last.ok /\ (last.err = "" \/ MentionsNoFiles(last.err)))

C8_BadMagicAnyLength ==
    (last.op = "open" /\ disk[last.arg] # NoFile /\ ~HasMagic(disk[last.arg])) =>
        (~last.ok /\ last.err = ErrBadMagic)

\* C8 amended: open of a file whose first 4 bytes are not "BIGF" fails; the error is the
\* bad-magic error when the file has at least 16 bytes, the too-small error when it has
\* 1 to 15 bytes, and the empty-file error when it has none.
C8_BadMagicRejected ==
    (last.op = "open" /\ disk[last.arg] # NoFile /\ ~HasMagic(disk[last.arg])) =>
        /\ ~last.ok
        /\ ~reader.mappedFile_.isOpen
        /\ last.err = IF Len(disk[last.arg]) = 0 THEN ErrEmptyFile
                      ELSE IF Len(disk[last.arg]) < headerSize THEN ErrTooSmall
                      ELSE ErrBadMagic

C8_Witness ==
    /\ last.op = "open"
    /\ disk[last.arg] # NoFile
    /\ ~HasMagic(disk[last.arg])
    /\ Len(disk[last.arg]) \in 4..(headerSize - 1)
    /\ last.err = ErrTooSmall

\* C9: a parsed entry's path is the stored path with its letter case preserved and only
\* its backslashes replaced; its lowercasePath is the lowercase form of that path.
C9_PathCasePreserved ==
    (ReaderOn(OutPath) /\ wrote.valid /\ Len(reader.files_) = Len(wrote.files)) =>
        \A i \in 1..Len(reader.files_) :
            /\ reader.files_[i].path = SlashOnly(wrote.files[i].path)
            /\ reader.files_[i].lowercasePath
                 = [k \in 1..Len(wrote.files[i].path) |-> Fold(wrote.files[i].path[k])]

\* C10: every error of every operation is returned as a value: no call ends with an
\* exception or in undefined behaviour, and a failing extract returns failure with an
\* error message.
C10_ErrorsAreValues ==
    /\ last.how = "returned"
    /\ (last.op = "extract" /\ ~last.ok) => last.err # ""

\* C11: a failing write leaves the Writer as it was: the pending list and the directory
\* snapshot that files() returns are both unchanged.
C11_FailedWriteFrame ==
    [][ (last'.op = "write" /\ ~last'.ok)
            => (pendingFiles_' = pendingFiles_ /\ entries_' = entries_) ]_vars

\* the pending list alone is unchanged by every write, failing or not
WriteKeepsPending ==
    [][ last'.op = "write" => pendingFiles_' = pendingFiles_ ]_vars

\* the alive objects that hold descriptor fd / the mapping at address a
FdOwners(fd) == {o \in Slots : objs[o].alive /\ objs[o].fd_ = fd}
MapOwners(a) == {o \in Slots : objs[o].alive /\ objs[o].data_ = a}
LiveMaps == {a \in DOMAIN os.maps : os.maps[a].size > 0}
HoldsNothing(m) == m.fd_ = NoFd /\ m.data_ = NullPtr

\* C12: every descriptor and mapping that was acquired is released exactly once: what the
\* process holds is held by exactly one live object (so nothing outlives its owner),
\* nothing is closed or unmapped twice, and an object that was closed, destroyed or
\* whose open failed holds nothing.
C12_ResourcesReleasedOnce ==
    /\ ~os.doubleRelease
    /\ \A fd \in os.fds : Cardinality(FdOwners(fd)) = 1
    /\ \A a \in LiveMaps : Cardinality(MapOwners(a)) = 1
    /\ \A o \in Slots : ~objs[o].alive => HoldsNothing(objs[o])
    /\ \A o \in Slots : objs[o].fd_ >= 0 => objs[o].fd_ \in os.fds
    /\ \A o \in Slots : objs[o].data_ # NullPtr => objs[o].data_ \in LiveMaps
    /\ (last.op \in {"close", "destroy"}
          \/ (last.op \in {"openRead", "openWrite", "Reader::open"} /\ ~last.ok))
         => HoldsNothing(objs[last.obj])
    /\ (\A o \in Slots : ~objs[o].alive) => (os.fds = {} /\ LiveMaps = {})

C12_Witness ==
    /\ last.op = "moveAssign"
    /\ Len(os.maps) = 2
    /\ os.maps[1].size = 0
    /\ os.maps[2].size > 0
    /\ os.fds = {FirstFd + 1}

\* C13: a move from an open source (into another object) leaves the source closed and
\* holding nothing, the destination open on the same mapping with the same size, and
\* what a move-assigned destination owned before released; no two objects ever hold
\* the same mapping or descriptor.
C13_OwnershipTransfer ==
    /\ [](\A o, q \in Slots :
            (o # q /\ objs[o].alive /\ objs[q].alive) =>
                /\ objs[o].data_ # NullPtr => objs[o].data_ # objs[q].data_
                /\ objs[o].fd_ # NoFd => objs[o].fd_ # objs[q].fd_)
    /\ [][ (/\ last'.op \in {"moveConstruct", "moveAssign"}
            /\ last'.path[1] # last'.obj
            /\ mfIsOpen(objs[last'.path[1]]))
           => LET src == last'.path[1]
                  dst == last'.obj
              IN  /\ ~mfIsOpen(objs'[src])
                  /\ HoldsNothing(objs'[src])
                  /\ mfIsOpen(objs'[dst])
                  /\ objs'[dst].data_ = objs[src].data_
                  /\ objs'[dst].fd_ = objs[src].fd_
                  /\ mfSize(objs'[dst]) = mfSize(objs[src])
                  /\ os'.maps[objs'[dst].data_] = os.maps[objs[src].data_]
                  /\ disk' = disk
                  /\ objs[dst].fd_ >= 0 => objs[dst].fd_ \notin os'.fds
                  /\ objs[dst].data_ > 0 => os'.maps[objs[dst].data_].size = 0 ]_vars

C13_Witness ==
    /\ last.op = "moveAssign"
    /\ last.path[1] # last.obj
    /\ mfIsOpen(objs[last.obj])
    /\ objs[last.obj].data_ = 2
    /\ os.maps[1].size = 0

\* C14: openRead of a path that does not exist or of an empty file fails, openWrite with
\* size 0 fails, and after each of these failures isOpen() is false.
C14_FailedOpenClosed ==
    /\ (last.op = "openRead" /\ (disk[last.arg] = NoFile \/ Len(disk[last.arg]) = 0))
          => (~last.ok /\ last.err # "" /\ ~mfIsOpen(objs[last.obj]))
    /\ (last.op = "openWrite" /\ last.path[1] = 0)
          => (~last.ok /\ last.err # "" /\ ~mfIsOpen(objs[last.obj]))

C14_Witness ==
    /\ last.op = "openRead"
    /\ disk[last.arg] # NoFile
    /\ Len(disk[last.arg]) = 0
    /\ last.err = ErrEmptyFile
    /\ os.maps # <<>>

-----------------------------------------------------------------------------
(* The Archive facade *)

\* C15: an Archive never holds a Reader and a Writer at once, whatever was called on it
\* (open, create, close, clear, moves, any other call), and isOpen() is true exactly
\* when one of the two is held.
C15_ModeExclusive ==
    \A a \in ArchiveSlots :
        /\ ~(isReading(archive[a]) /\ isWriting(archive[a]))
        /\ isOpen(archive[a]) <=> (archive[a].reader_.set # archive[a].writer_.set)

\* an Archive that was writing took over, by a move, the Reader of another one
C15_Witness ==
    /\ last.op = "Archive::moveAssign"
    /\ isReading(archive[last.obj])
    /\ \E b \in ArchiveSlots : b # last.obj /\ ~isOpen(archive[b])
    /\ calls >= 3

\* C16: addFile and write on an Archive that is not writing, extract and
\* extractToMemory on one that is not reading, fail at once with the wrong-mode
\* message, change no Archive and touch no file.
C16_WrongModeFails ==
    [][ /\ (last'.op \in {"Archive::addFile", "Archive::write"}
                /\ ~isWriting(archive[last'.obj]))
            => (/\ ~last'.ok
                /\ last'.err = ErrNotWriting
                /\ last'.how = "returned"
                /\ archive' = archive
                /\ disk' = disk)
        /\ (last'.op \in {"Archive::extract", "Archive::extractToMemory"}
                /\ ~isReading(archive[last'.obj]))
            => (/\ ~last'.ok
                /\ last'.err = ErrNotReading
                /\ last'.how = "returned"
                /\ archive' = archive
                /\ disk' = disk) ]_vars

\* write was called on an Archive that is reading an archive file
C16_Witness ==
    /\ last.op = "Archive::write"
    /\ last.err = ErrNotWriting
    /\ isReading(archive[last.obj])
    /\ Len(archiveFiles(archive[last.obj])) > 0

-----------------------------------------------------------------------------
(* The layout of a written archive *)

\* the 4 bytes of n, most significant first
BigEndian(n) ==
    << n \div 16777216, (n \div 65536) % 256, (n \div 256) % 256, n % 256 >>

\* f[1] + ... + f[k]
RECURSIVE SumTo(_, _)
SumTo(f, k) == IF k = 0 THEN 0 ELSE f[k] + SumTo(f, k - 1)

\* of the files of the last successful write: the directory record lengths, the
\* byte lengths, where record i starts and where the bytes of file i start (0-based)
RecordLens == [i \in 1..Len(wrote.files) |-> 8 + Len(wrote.files[i].path) + 1]
ByteLens == [i \in 1..Len(wrote.files) |-> Len(wrote.files[i].bytes)]
LayoutRecordAt(i) == 16 + SumTo(RecordLens, i - 1)
LayoutOffset(i) == 16 + SumTo(RecordLens, Len(wrote.files)) + SumTo(ByteLens, i - 1)

\* bytes [from, from + n) of the written archive
OutBytes(from, n) == SubSeq(disk[OutPath], from + 1, from + n)

\* C17: for n >= 1 pending files a successful write leaves exactly
\* 16 + sum(8 + len(path_i) + 1) + sum(size_i) bytes: "BIGF", the big-endian total
\* size, the big-endian count n, four zero bytes; then per file a record of big-endian
\* offset and size, the path with forward slashes and its case kept, and a zero byte;
\* the first offset is 16 + directory size, each next one the previous plus its size,
\* and the bytes at [offset_i, offset_i + size_i) are those of file i.
C17_ArchiveLayout ==
    (last.op = "write" /\ last.ok /\ Len(wrote.files) >= 1) =>
        LET n == Len(wrote.files)
            total == 16 + SumTo(RecordLens, n) + SumTo(ByteLens, n)
        IN  /\ Len(disk[OutPath]) = total
            /\ OutBytes(0, 4) = <<66, 73, 71, 70>>
            /\ OutBytes(4, 4) = BigEndian(total)
            /\ OutBytes(8, 4) = BigEndian(n)
            /\ OutBytes(12, 4) = <<0, 0, 0, 0>>
            /\ \A i \in 1..n :
                 LET path == wrote.files[i].path
                     rec == LayoutRecordAt(i)
                 IN  /\ OutBytes(rec, 4) = BigEndian(LayoutOffset(i))
                     /\ OutBytes(rec + 4, 4) = BigEndian(ByteLens[i])
                     /\ OutBytes(rec + 8, Len(path)) = SlashOnly(path)
                     /\ OutBytes(rec + 8 + Len(path), 1) = <<0>>
                     /\ OutBytes(LayoutOffset(i), ByteLens[i]) = wrote.files[i].bytes

\* two files were written, one under a path with a backslash and an upper-case letter,
\* one with a byte of content read from the source file
C17_Witness ==
    /\ last.op = "write"
    /\ last.ok
    /\ Len(wrote.files) = 2
    /\ \E i \in 1..2 : wrote.files[i].path = <<65, 92>>
    /\ \E i \in 1..2 : added[i].fromDisk /\ Len(wrote.files[i].bytes) >= 1

-----------------------------------------------------------------------------
(* The lookup index of an opened archive *)

\* a path in lower case with forward slashes
FoldPath(p) == [k \in 1..Len(p) |-> Fold(p[k])]

\* well-formed archives of two entries whose paths are the same up to case and slash
DuplicateImages ==
    { ArchiveImage(sh, U32(2), t) :
        sh \in { s \in [1..2 -> PlainShapes] :
                   SamePath(s[1].path, s[2].path) },
        t \in { u \in Tails : Len(u) >= 1 } }

\* C18: open fails with the duplicate-path error for an archive in which two directory
\* entries have the same lower-case, slash-normalized path; after every successful open
\* the index maps each entry's normalized path to that entry's position and to nothing
\* else, and findFile(e.path) returns e for every entry e of files().
C18_LookupIndex ==
    /\ (last.op = "open" /\ disk[last.arg] \in DuplicateImages)
          => (~last.ok /\ last.err = ErrDuplicate /\ ~reader.mappedFile_.isOpen)
    /\ reader.mappedFile_.isOpen =>
          /\ \A i, j \in 1..Len(reader.files_) :
                 SamePath(reader.files_[i].path, reader.files_[j].path) => i = j
          /\ DOMAIN reader.lookup_
                 = { FoldPath(reader.files_[i].path) : i \in 1..Len(reader.files_) }
          /\ \A i \in 1..Len(reader.files_) :
                 /\ reader.lookup_[FoldPath(reader.files_[i].path)] = i
                 /\ findFile(reader, reader.files_[i].path) = i

\* an archive with the entries "A\" and "a/" was refused
C18_Witness ==
    /\ last.op = "open"
    /\ disk[last.arg] \in DuplicateImages
    /\ last.err = ErrDuplicate
    /\ \E k \in 1..Len(disk[last.arg]) : disk[last.arg][k] = 65
    /\ \E k \in 1..Len(disk[last.arg]) : disk[last.arg][k] = 97

-----------------------------------------------------------------------------
(* Reader::close *)

\* Reader::isOpen, Reader::fileCount
ReaderIsOpen(r) == r.mappedFile_.isOpen
ReaderFileCount(r) == Len(r.files_)

\* C19: close releases the mapping and clears the directory and the index: afterwards
\* isOpen() is false, fileCount() is 0 and findFile returns null for every path; close
\* on a Reader that is closed or was never opened changes nothing.
C19_CloseClears ==
    [][ last'.op = "close" =>
          /\ ~ReaderIsOpen(reader')
          /\ reader'.mappedFile_ = Unmapped
          /\ ReaderFileCount(reader') = 0
          /\ \A q \in Queries \cup {reader.files_[i].path : i \in 1..Len(reader.files_)} :
                 findFile(reader', q) = 0
          /\ ~ReaderIsOpen(reader) => reader' = reader
          /\ disk' = disk ]_vars

\* a Reader with two entries was closed
C19_Witness ==
    /\ last.op = "close"
    /\ last.arg = OutPath
    /\ parse(disk[OutPath]).ok
    /\ Len(parse(disk[OutPath]).files_) = 2
    /\ ~ReaderIsOpen(reader)

\* close was called on a Reader that maps nothing
C19_WitnessClosed ==
    /\ last.op = "close"
    /\ last.arg = None

-----------------------------------------------------------------------------
(* addFile from a source file that is not there *)

\* C20: addFile(sourcePath, archivePath) with a sourcePath that does not exist fails
\* with the source-not-found error and leaves the pending list as it was; the source is
\* looked for before duplicates are, so a call whose archive path is also a duplicate
\* reports the missing source.
C20_MissingSource ==
    [][ (last'.op = "addFile" /\ last'.arg = SrcPath /\ disk[SrcPath] = NoFile)
            => (/\ ~last'.ok
                /\ last'.err = ErrNoSource
                /\ last'.err # ""
                /\ pendingFiles_' = pendingFiles_) ]_vars

\* the source was missing and the archive path was that of a pending entry
C20_Witness ==
    /\ last.op = "addFile"
    /\ last.arg = SrcPath
    /\ disk[SrcPath] = NoFile
    /\ last.err = ErrNoSource
    /\ PendingHas(last.path)

-----------------------------------------------------------------------------
(* MappedFile::flush *)

\* C21: flush succeeds only on an open mapping made by openWrite; on a read-only
\* mapping and on an object that was never opened, was closed or was moved from it
\* returns failure, and it leaves the object, the mappings and the files as they were.
C21_FlushNeedsWriteMapping ==
    [][ last'.op = "flush" =>
          /\ last'.ok => (mfIsOpen(objs[last'.obj]) /\ objs[last'.obj].writable_)
          /\ (~mfIsOpen(objs[last'.obj]) \/ ~objs[last'.obj].writable_)
                => (/\ ~last'.ok
                    /\ last'.err # ""
                    /\ objs' = objs
                    /\ os' = os
                    /\ disk' = disk) ]_vars

\* flush was refused on a read-only mapping
C21_Witness ==
    /\ last.op = "flush"
    /\ ~last.ok
    /\ mfIsOpen(objs[last.obj])
    /\ ~objs[last.obj].writable_

\* flush was refused on an object that holds no mapping (never opened, or moved from)
\* while another object holds the write mapping
C21_WitnessMovedFrom ==
    /\ last.op = "flush"
    /\ ~last.ok
    /\ ~mfIsOpen(objs[last.obj])
    /\ \E o \in Slots : objs[o].alive /\ mfIsOpen(objs[o]) /\ objs[o].writable_
    /\ Len(os.maps) = 1

-----------------------------------------------------------------------------
(* The members of a MappedFile *)

\* the number of elements of the span data() returns: span(data_, size_)
DataViewLen(m) == m.size_

\* C30: in every state reached through openRead, openWrite (succeeding or failing at
\* any step), flush, close and moves, an object that is not open has size() = 0 and an
\* empty data() view, and an open object's size() is the length of the file it maps.
C30_MappedFileState ==
    \A o \in Slots :
        objs[o].alive =>
            /\ ~mfIsOpen(objs[o]) => (mfSize(objs[o]) = 0 /\ DataViewLen(objs[o]) = 0)
            /\ mfIsOpen(objs[o]) =>
                  mfSize(objs[o]) = Len(disk[os.maps[objs[o].data_].path])

\* an open object's size() is the length of its mapping (the file itself can be made
\* shorter by a second openWrite of the same path)
OpenSizeIsMappingLength ==
    \A o \in Slots :
        (objs[o].alive /\ mfIsOpen(objs[o])) =>
            mfSize(objs[o]) = os.maps[objs[o].data_].size

-----------------------------------------------------------------------------
(* Extraction of the entries of an open Reader *)

\* the archive bytes [offset, offset + size) of an entry whose fields are small
EntryBytes(r, e) ==
    SubSeq(r.mappedFile_.data, e.offset.lo + 1, e.offset.lo + e.size.lo)

\* extractToMemory returns the entry's bytes, and extract, when the destination can be
\* created and written, leaves them in the destination file
ExtractsItsBytes(r, e) ==
    LET m == extractToMemory(r, e)
        x == extract(r, disk, e, ExtPath, TRUE, TRUE, TRUE, 0)
    IN  /\ m.ok
        /\ ~m.ub
        /\ Len(m.bytes) = e.size.lo
        /\ m.bytes = EntryBytes(r, e)
        /\ x.how = "returned"
        /\ x.ok
        /\ x.disk[ExtPath] = EntryBytes(r, e)

\* C22: for every entry of files() of an open Reader (findFile returns one of these)
\* the bounds lie inside the mapped archive, extractToMemory succeeds and returns
\* exactly entry.size bytes, the archive bytes [offset, offset + size), and extract
\* succeeds when the destination is writable.
C22_EntriesExtract ==
    reader.mappedFile_.isOpen =>
        \A i \in 1..Len(reader.files_) :
            /\ MathSumLeq(reader.files_[i].offset, reader.files_[i].size,
                          Len(reader.mappedFile_.data))
            /\ ExtractsItsBytes(reader, reader.files_[i])

\* the same for the entries of at least one byte whose offset + size does not wrap
ExtractNonEmptyInBounds ==
    reader.mappedFile_.isOpen =>
        \A i \in 1..Len(reader.files_) :
            (/\ reader.files_[i].size # U32(0)
             /\ MathSumLeq(reader.files_[i].offset, reader.files_[i].size,
                           Len(reader.mappedFile_.data)))
                => ExtractsItsBytes(reader, reader.files_[i])

-----------------------------------------------------------------------------
(* The views getFileView hands out *)

\* FileEntry values a caller can build: offsets and sizes at both ends of uint32_t
CallerEntries ==
    { FileEntry(<<98>>, <<98>>, off, sz) :
        off \in {U32(0), U32(1), U32(headerSize), U32Max},
        sz \in {U32(0), U32(1), U32Max} }

\* the entries the archive file yields: what a caller copied from files() before close
CopiedEntries ==
    IF disk[OutPath] # NoFile /\ parse(disk[OutPath]).ok
    THEN { parse(disk[OutPath]).files_[i] : i \in 1..Len(parse(disk[OutPath]).files_) }
    ELSE {}

\* the view of entry e is empty or lies inside the mapping, and is empty when the
\* Reader maps nothing
ViewIsValid(r, e) ==
    LET v == getFileView(r, e)
    IN  /\ v.size # U32(0) => ViewInBounds(r, v)
        /\ ~r.mappedFile_.isOpen => v.size = U32(0)

\* C23: getFileView never returns a non-empty view that leaves the mapped region; on a
\* Reader that is closed, was never opened or was moved from it returns an empty view
\* for every FileEntry a caller can pass, entries copied before close and entries built
\* by the caller with any 32-bit offset and size included.
C23_ViewValidity ==
    \A e \in CallerEntries \cup CopiedEntries : ViewIsValid(reader, e)

\* the same for the entries whose offset + size does not wrap in 32 bits
ViewValidityNoWrap ==
    \A e \in CallerEntries \cup CopiedEntries :
        (e.offset.hi < 32768 /\ e.size.hi < 32768) => ViewIsValid(reader, e)

-----------------------------------------------------------------------------
(* Archives cut inside the directory *)

\* C24: of an archive a successful write of one or more files produced, every prefix
\* that ends inside the directory (at least 16 bytes, fewer than 16 + directory size)
\* is refused by open, with the truncated-entry or the out-of-bounds-entry error.
C24_TruncatedRejected ==
    (last.op = "open" /\ disk[last.arg] \in TruncatedArchives) =>
        /\ ~last.ok
        /\ ~reader.mappedFile_.isOpen
        /\ last.err \in {ErrTruncated, ErrOutOfBounds}

\* a two-file archive was cut at or behind the end of its first record
C24_Witness ==
    /\ last.op = "open"
    /\ disk[last.arg] \in TruncatedArchives
    /\ last.err = ErrOutOfBounds
    /\ betoh32(disk[last.arg], 8) = U32(2)
    /\ Len(disk[last.arg]) > headerSize + 8 + 2

\* the cut fell inside the offset and size fields of the first record
C24_WitnessShort ==
    /\ last.op = "open"
    /\ disk[last.arg] \in TruncatedArchives
    /\ last.err = ErrTruncated

-----------------------------------------------------------------------------
(* The advisory fields of the header *)

\* other contents for the total-size field and for the reserved field
Alterations ==
    [size : { <<0, 0, 0, 0>>, <<255, 255, 255, 255>> },
     reserved : { <<0, 0, 0, 0>>, <<1, 2, 3, 4>> }]

\* the archive img with bytes [4,8) and [12,16) replaced
Alter(img, a) ==
    [k \in 1..Len(img) |->
        IF k \in 5..8 THEN a.size[k - 4]
        ELSE IF k \in 13..16 THEN a.reserved[k - 12]
        ELSE img[k]]

\* the Reader that open gives for a file with the bytes data that parses
ReaderOf(data) ==
    [mappedFile_ |-> [isOpen |-> TRUE, path |-> OutPath, data |-> data],
     files_ |-> parse(data).files_, lookup_ |-> parse(data).lookup_]

\* open of the archive with altered fields ends as the open just made did: the same
\* outcome and error, the same files()
SameOpenResult(img2) ==
    /\ parse(img2).ok = last.ok
    /\ parse(img2).err = last.err
    /\ last.ok => parse(img2).files_ = reader.files_

\* the bytes of entry e lie inside the archive and touch neither field
ClearOfFields(e) ==
    /\ MathSumLeq(e.offset, e.size, Len(reader.mappedFile_.data))
    /\ \/ e.size.lo = 0
       \/ e.offset.lo >= 16
       \/ e.offset.lo + e.size.lo <= 4
       \/ e.offset.lo >= 8 /\ e.offset.lo + e.size.lo <= 12

\* C25 as stated: two archives that differ only in bytes [4,8) and [12,16) both fail
\* open with the same error, or both open with the same files() and the same
\* extracted bytes for every entry.
C25_AdvisoryFields ==
    (last.op = "open" /\ last.arg = OutPath /\ Len(disk[OutPath]) >= headerSize) =>
        \A a \in Alterations :
            /\ SameOpenResult(Alter(disk[OutPath], a))
            /\ last.ok =>
                 \A i \in 1..Len(reader.files_) :
                     extractToMemory(ReaderOf(Alter(disk[OutPath], a)), reader.files_[i])
                         = extractToMemory(reader, reader.files_[i])

\* C25 amended: two archives that differ only in bytes [4,8) and [12,16) both fail
\* open with the same error, or both open with the same files(); the extracted bytes
\* are the same for every entry whose bytes lie inside the archive and outside those
\* two fields (an entry's offset may point into the header).
C25_AdvisoryFieldsOutsideEntries ==
    (last.op = "open" /\ last.arg = OutPath /\ Len(disk[OutPath]) >= headerSize) =>
        \A a \in Alterations :
            /\ SameOpenResult(Alter(disk[OutPath], a))
            /\ last.ok =>
                 \A i \in 1..Len(reader.files_) :
                     ClearOfFields(reader.files_[i]) =>
                         extractToMemory(ReaderOf(Alter(disk[OutPath], a)),
                                         reader.files_[i])
                             = extractToMemory(reader, reader.files_[i])

\* an archive was opened that has one entry inside the header and, with the fields
\* altered, opens to the same directory
C25_Witness ==
    /\ last.op = "open"
    /\ last.ok
    /\ Len(reader.files_) = 1
    /\ reader.files_[1].offset = U32(4)
    /\ \E a \in Alterations :
         /\ Alter(disk[OutPath], a) # disk[OutPath]
         /\ parse(Alter(disk[OutPath], a)).files_ = reader.files_

-----------------------------------------------------------------------------
(* An Archive that is closed *)

\* what every member of Archive x answers, with the files d on disk, when x holds
\* neither a Reader nor a Writer
ClosedArchiveAnswers(x, d) ==
    /\ ~isOpen(x) /\ ~isReading(x) /\ ~isWriting(x)
    /\ archiveFiles(x) = <<>>
    /\ archiveFileCount(x) = 0
    /\ \A q \in Queries : archiveFindFile(x, q) = 0
    /\ \A e \in FacadeEntries \cup {c \in CallerEntries : c.offset = U32Max} :
          /\ archiveGetFileView(x, e) = EmptyView
          /\ archiveExtractToMemory(x, e) =
                [ok |-> FALSE, err |-> ErrNotReading, ub |-> FALSE, bytes |-> <<>>]
          /\ \A dirsOK, canCreate \in BOOLEAN :
                archiveExtract(x, d, e, ExtPath, dirsOK, canCreate, TRUE, 0)
                    = Returned(FALSE, ErrNotReading, d)
    /\ \A p \in FacadePaths :
          /\ archiveAddFileDisk(x, SrcPath, p)
                = [ok |-> FALSE, err |-> ErrNotWriting, archive |-> x]
          /\ \A c \in MemContents :
                archiveAddFileMem(x, c, p)
                    = [ok |-> FALSE, err |-> ErrNotWriting, archive |-> x]
    /\ \A sys \in WriteOutcomes :
          archiveWrite(d, x, OutPath, sys)
              = [ok |-> FALSE, err |-> ErrNotWriting, archive |-> x, disk |-> d]
    /\ archiveClose(x) = x
    /\ archiveClear(x) = x

\* C26: after close() an Archive is neither open, reading nor writing, files() is
\* empty, fileCount() is 0, findFile gives null, getFileView gives the empty view, and
\* addFile, write, extract and extractToMemory fail with the wrong-mode message; close()
\* and clear() on an Archive that is not open change nothing; an Archive that was only
\* default-constructed answers the same.
C26_ClosedArchive ==
    [][ /\ last'.op = "Archive::close"
            => (/\ ClosedArchiveAnswers(archive'[last'.obj], disk')
                /\ archive'[last'.obj] = DefaultArchive
                /\ \A b \in ArchiveSlots \ {last'.obj} : archive'[b] = archive[b]
                /\ disk' = disk)
        /\ (last'.op \in {"Archive::close", "Archive::clear"}
                /\ ~isOpen(archive[last'.obj]))
            => (/\ archive' = archive
                /\ disk' = disk
                /\ ClosedArchiveAnswers(archive'[last'.obj], disk')) ]_vars

\* an Archive added a file under "c", wrote it and was closed; no Archive is open
C26_Witness ==
    /\ last.op = "Archive::close"
    /\ \A a \in ArchiveSlots : ~isOpen(archive[a])
    /\ disk[OutPath] # NoFile
    /\ parse(disk[OutPath]).ok
    /\ Len(parse(disk[OutPath]).files_) = 1
    /\ parse(disk[OutPath]).files_[1].path = <<99>>

\* close() was the first call, on a default-constructed Archive
C26_WitnessDefault ==
    /\ last.op = "Archive::close"
    /\ calls = 1

-----------------------------------------------------------------------------
(* write and the pending list *)

\* Writer::fileCount
WriterFileCount(pending) == Len(pending)

\* C27: write leaves the pending list as it was, whether it succeeds or fails, so
\* fileCount() is the same before and after; a second write that follows a successful
\* one, with the sources unchanged, succeeds and stores the same bytes at the
\* destination.
C27_WriteKeepsPendingList ==
    /\ [][ last'.op = "write" =>
              /\ pendingFiles_' = pendingFiles_
              /\ WriterFileCount(pendingFiles_') = WriterFileCount(pendingFiles_) ]_vars
    /\ [] ((last.op = "write" /\ last.ok) =>
              LET again == write(disk, pendingFiles_, entries_, OutPath, "ok")
              IN  /\ again.ok
                  /\ again.disk[OutPath] = disk[OutPath]
                  /\ again.entries = entries_)

\* a write of two pending files, one of them from disk, succeeded
C27_Witness ==
    /\ last.op = "write"
    /\ last.ok
    /\ Len(pendingFiles_) = 2
    /\ \E i \in 1..2 : pendingFiles_[i].fromDisk

\* a write with a pending file failed
C27_WitnessFailed ==
    /\ last.op = "write"
    /\ ~last.ok
    /\ Len(pendingFiles_) >= 1

-----------------------------------------------------------------------------
(* Writer::files() against Reader::files() *)

\* C28: when a write of n >= 1 files succeeded and the archive it produced is opened,
\* the Writer's files() and the Reader's files() have the same number of entries, in
\* the same order, with the same offset, size and lowercasePath at every position.
C28_WriterFilesAgree ==
    (OpenedWritten /\ Len(entries_) >= 1)
        => /\ last.ok
           /\ ReaderOn(OutPath)
           /\ Len(reader.files_) = Len(entries_)
           /\ \A i \in 1..Len(entries_) :
                 /\ reader.files_[i].offset = entries_[i].offset
                 /\ reader.files_[i].size = entries_[i].size
                 /\ reader.files_[i].lowercasePath = entries_[i].lowercasePath

\* the archive opened holds two files, one stored under a path with a capital letter
C28_Witness ==
    /\ OpenedWritten
    /\ last.ok
    /\ Len(entries_) = 2
    /\ \E i \in 1..2 : entries_[i].path # entries_[i].lowercasePath

-----------------------------------------------------------------------------
(* Writer::write when a source is not, in the data pass, what the size pass saw:   *)
(* it was rewritten in between, or it is the destination file itself                *)

\* most calls in one run of the two-pass Writer
MaxWriteCalls == 3

\* the files addFile is given as sources: a file of its own, or the file write produces
SourcePaths == {SrcPath, OutPath}

\* one past the last byte the data pass stores: pos after the last memcpy it made
StoredEnd(pending, entries) ==
    headerSize + DirectorySize(pending, Len(pending))
        + SumOver([j \in 1..Len(entries) |-> entries[j].size.lo], Len(entries))

\* Writer::write, the size pass reading the files of d and the data pass the sources
\* of dData: the outcomes it can have. A memcpy that leaves the mapping of totalSize
\* bytes is undefined: the stores may land behind the file's end in its last page, and
\* write goes on, or fault after any number of files was stored.
writeTwoPass(d, dData, pending, entries, destPath, sys) ==
    IF Len(pending) = 0 \/ StatFails(d, pending) \/ sys \in {"open", "ftruncate", "mmap"}
    THEN LET r == write(d, pending, entries, destPath, sys)
         IN  { [how |-> "returned", ok |-> r.ok, err |-> r.err, disk |-> r.disk,
                entries |-> r.entries] }
    ELSE LET totalSize == TotalSize(d, pending)
             d1 == [dData EXCEPT ![destPath] = Zeros(totalSize)]
             b1 == StoreAt(Zeros(totalSize), 0, HeaderBytes(totalSize, Len(pending)))
             b2 == WriteDirectory(b1, pending, 1, headerSize)
             start == headerSize + DirectorySize(pending, Len(pending))
             upTo(k) == DataPass(Readable(d1, sys), destPath, SubSeq(pending, 1, k),
                                 b2, 1, start, <<>>)
             r == upTo(Len(pending))
             done == [how |-> "returned",
                      ok |-> r.ok /\ sys # "msync",
                      err |-> IF ~r.ok THEN r.err
                              ELSE IF sys = "msync" THEN ErrSync ELSE "",
                      disk |-> [dData EXCEPT ![destPath] = r.buf],
                      entries |-> r.entries]
         IN  IF StoredEnd(pending, r.entries) <= totalSize
             THEN {done}
             ELSE {[done EXCEPT !.how = "undefined"]} \cup
                  { [how |-> "undefined", ok |-> FALSE, err |-> "fault",
                     disk |-> [dData EXCEPT ![destPath] = upTo(k).buf],
                     entries |-> upTo(k).entries] : k \in 0..(Len(pending) - 1) }

\* Writer::addFile(sourcePath, archivePath)
WAddFileDisk(sourcePath, archivePath) ==
    /\ calls < MaxWriteCalls
    /\ \E r \in {addFileFromDisk(pendingFiles_, sourcePath, archivePath)} :
        /\ Len(r.pending) <= MaxFiles
        /\ pendingFiles_' = r.pending
        /\ last' = [CallAdd(archivePath, r.ok, r.err) EXCEPT !.arg = sourcePath]
    /\ calls' = calls + 1
    /\ UNCHANGED <<disk, entries_, reader, added, wrote, objs, os, archive>>

\* Writer::addFile(data, archivePath)
WAddFileMem(data, archivePath) ==
    /\ calls < MaxWriteCalls
    /\ \E r \in {addFileFromMemory(pendingFiles_, data, archivePath)} :
        /\ Len(r.pending) <= MaxFiles
        /\ pendingFiles_' = r.pending
        /\ last' = CallAdd(archivePath, r.ok, r.err)
    /\ calls' = calls + 1
    /\ UNCHANGED <<disk, entries_, reader, added, wrote, objs, os, archive>>

\* Writer::write(OutPath); the file at SrcPath holds mid when the data pass reads it
WWrite(sys, mid) ==
    /\ calls < MaxWriteCalls
    /\ \E r \in writeTwoPass(disk, [disk EXCEPT ![SrcPath] = mid], pendingFiles_,
                             entries_, OutPath, sys) :
        /\ disk' = r.disk
        /\ entries_' = r.entries
        /\ last' = Call("write", OutPath, r.how, r.ok, r.err)
    /\ calls' = calls + 1
    /\ UNCHANGED <<pendingFiles_, reader, added, wrote, objs, os, archive>>

\* Writer::clear
WClear ==
    /\ calls < MaxWriteCalls
    /\ pendingFiles_' = <<>>
    /\ entries_' = <<>>
    /\ last' = Call("clear", "", "returned", TRUE, "")
    /\ calls' = calls + 1
    /\ UNCHANGED <<disk, reader, added, wrote, objs, os, archive>>

InitWrite ==
    /\ disk \in { [p \in Paths |-> IF p = SrcPath THEN c
                                   ELSE IF p = OutPath THEN o ELSE NoFile] :
                    c \in Contents \cup {NoFile}, o \in {NoFile, <<7>>} }
    /\ pendingFiles_ = <<>>
    /\ entries_ = <<>>
    /\ reader = ReaderClosed
    /\ last = NoCall
    /\ added = <<>>
    /\ wrote = NotWritten
    /\ calls = 0
    /\ objs = NoObjects
    /\ os = NoResources
    /\ archive = DefaultArchives

NextWrite ==
    \/ \E s \in SourcePaths, p \in FacadePaths : WAddFileDisk(s, p)
    \/ \E c \in MemContents, p \in FacadePaths : WAddFileMem(c, p)
    \/ \E sys \in WriteOutcomes, mid \in Contents \cup {NoFile} : WWrite(sys, mid)
    \/ WClear

SpecWrite == InitWrite /\ [][NextWrite]_vars

\* a pending file whose source is the file that write produces
PendingAliases(pending, destPath) ==
    \E i \in 1..Len(pending) : pending[i].fromDisk /\ pending[i].sourcePath = destPath

\* C29: every byte write stores lies inside the output region of the totalSize bytes
\* the size pass computed, also when a source file is longer in the data pass than it
\* was in the size pass and when a source is the destination file itself.
C29_WriteStaysInside ==
    last.op = "write" => last.how = "returned"

\* with sources that are not the destination and are not rewritten during write, the
\* stores stay inside the region
InsideWhenSourcesStable ==
    [][ (/\ last'.op = "write"
         /\ ~PendingAliases(pendingFiles_, OutPath)
         /\ disk'[SrcPath] = disk[SrcPath])
            => last'.how = "returned" ]_vars

\* the stores left the region with a source that is the destination file
OutsideBySelfSource ==
    /\ last.op = "write"
    /\ last.how = "undefined"
    /\ \A i \in 1..Len(pendingFiles_) :
          pendingFiles_[i].fromDisk => pendingFiles_[i].sourcePath = OutPath

\* the stores left the region with a source that grew between the two passes
OutsideByGrownSource ==
    /\ last.op = "write"
    /\ last.how = "undefined"
    /\ ~PendingAliases(pendingFiles_, OutPath)

====
